---- MODULE Spec2Model ----
(***************************************************************************)
(* A model of the data plane of the paddy_ecs world: the entity allocator  *)
(* (entity/entity.rs), the component registry (component/component.rs),    *)
(* tables and sparse sets (storage/), the archetype graph                  *)
(* (archetype/archetype.rs, archetype/edge.rs), bundles (bundle.rs), the   *)
(* world operations (world/world.rs) and the query engine (query/).        *)
(*                                                                         *)
(* Ids are 0-based as in the source; TLA+ sequences are 1-based, so the    *)
(* element with id i of a Vec is at position i + 1.                        *)
(***************************************************************************)
EXTENDS Integers, Sequences, FiniteSets, TLC

VARIABLES
    entities,     \* World.entities : Entities {meta, pending, free_cursor, len}
    threads,      \* position of each thread inside Entities::reserve_entity
    components,   \* World.components : Components (registered types, by id)
    storages,     \* World.storages : Storages {tables, sparse_sets}
    archetypes,   \* World.archetypes : Archetypes
    bundles,      \* World.bundles : Bundles
    change_tick,  \* World.change_tick
    qs,           \* a QueryState built from the world, or NoQuery
    panicked,     \* "none", or the panic that ended the program
    vended,       \* history: entities returned by alloc or flushed, not yet freed,
                  \*          one element per hand-out
    reserved,     \* history: entities returned by reserve_entity since the last
                  \*          flush, one element per call
    dead,         \* history: freed entity |-> successful frees of its index since
    reach,        \* history: (component set, archetype id) reached by add_bundle steps
    given,        \* history: entity |-> the bundle type and value it was spawned with
    last          \* history: the last operation, its arguments and its result

vars == <<entities, threads, components, storages, archetypes, bundles,
          change_tick, qs, panicked, vended, reserved, dead, reach, given, last>>

-----------------------------------------------------------------------------
(* Bounds of the model *)

\* cap on the number of entity indices (length of Entities.meta)
MaxMeta == 3
\* cap on reservations outstanding between two flushes
MaxReserved == 2
\* the largest generation; stands for u32::MAX, so that wrap-around is reachable
GenMax == 3
\* threads that may call reserve_entity concurrently
NumThreads == 2
\* cap on the bundle types registered when the archetype graph is driven directly
MaxBundles == 3
\* cap on the edges of the archetype graph when it is driven directly
MaxEdges == 4

Threads == 1..NumThreads

-----------------------------------------------------------------------------
(* Small helpers *)

Min(a, b) == IF a <= b THEN a ELSE b

Range(s) == {s[i] : i \in 1..Len(s)}

None == [some |-> FALSE]

Some(x) == [some |-> TRUE, val |-> x]

-----------------------------------------------------------------------------
(* Entity, EntityLocation, EntityMeta: entity/entity.rs *)

\* ArchetypeId::INVALID, ArchetypeRow::INVALID, TableId::INVALID, TableRow::INVALID
\* (all u32::MAX): a value no valid id or row takes
INVALID == -1

Entity(index, generation) == [index |-> index, generation |-> generation]

Location(archetype_id, archetype_row, table_id, table_row) ==
    [archetype_id |-> archetype_id, archetype_row |-> archetype_row,
     table_id |-> table_id, table_row |-> table_row]

LocationINVALID == Location(INVALID, INVALID, INVALID, INVALID)

EntityMetaEMPTY == [generation |-> 1, location |-> LocationINVALID]

EntitiesNew == [meta |-> <<>>, pending |-> <<>>, free_cursor |-> 0, len |-> 0]

\* meta.generation after a successful free: u32 wrapping_add(1), and 1 instead of 0
FreeGenerationSame(g) == g

FreeGenerationZero(g) == (g + 1) % (GenMax + 1)

FreeGeneration(g) ==
    LET w == (g + 1) % (GenMax + 1) IN IF w = 0 THEN 1 ELSE w

NeedsFlushNever(ents) == FALSE

\* Entities::needs_flush
NeedsFlush(ents) == ents.free_cursor # Len(ents.pending)

\* the entity reserve_entity builds from n, the value fetch_sub returned
ReserveFreshIndexStale(meta_len, n) == meta_len

ReserveFreshIndex(meta_len, n) == meta_len - n

\* reserve_entity read as testing and indexing with the value after the
\* decrement
ReserveEntityOfResult(ents, n) ==
    IF n - 1 > 0
    THEN Entity(ents.pending[(n - 1) + 1],
                ents.meta[ents.pending[(n - 1) + 1] + 1].generation)
    ELSE Entity(Len(ents.meta) + (IF n - 1 < 0 THEN 0 - (n - 1) ELSE n - 1), 1)

ReserveEntityOf(ents, n) ==
    IF n > 0
    THEN LET entity_id == ents.pending[(n - 1) + 1]
         IN  Entity(entity_id, ents.meta[entity_id + 1].generation)
    ELSE Entity(ReserveFreshIndex(Len(ents.meta), n), 1)

\* Entities::alloc after verify_flushed: the entity and the new allocator
AllocPendingKept(pending) == pending

AllocPending(pending) == SubSeq(pending, 1, Len(pending) - 1)

EntitiesAlloc(ents) ==
    IF Len(ents.pending) > 0
    THEN LET entity_id == ents.pending[Len(ents.pending)]
             rest == AllocPending(ents.pending)
         IN  [entity |-> Entity(entity_id, ents.meta[entity_id + 1].generation),
              ents |-> [ents EXCEPT !.len = @ + 1, !.pending = rest,
                                    !.free_cursor = Len(rest)]]
    ELSE [entity |-> Entity(Len(ents.meta), 1),
          ents |-> [ents EXCEPT !.len = @ + 1,
                                !.meta = Append(@, EntityMetaEMPTY)]]

FreeIsErrIndexOnly(ents, entity) == entity.index >= Len(ents.meta)

\* the checks of Entities::free that return Err(NoSuchEntity)
FreeIsErr(ents, entity) ==
    \/ entity.index >= Len(ents.meta)
    \/ ents.meta[entity.index + 1].generation # entity.generation
    \/ ents.meta[entity.index + 1].location = LocationINVALID

\* Entities::free when the checks pass: the old location and the new allocator
EntitiesFree(ents, entity) ==
    LET m == ents.meta[entity.index + 1]
        pend == Append(ents.pending, entity.index)
    IN  [loc |-> m.location,
         ents |-> [ents EXCEPT
                     !.meta[entity.index + 1] =
                         [generation |-> FreeGeneration(m.generation),
                          location |-> LocationINVALID],
                     !.pending = pend,
                     !.free_cursor = Len(pend),
                     !.len = @ - 1]]

\* Entities::get
EntitiesGet(ents, entity) ==
    IF entity.index < Len(ents.meta)
    THEN LET m == ents.meta[entity.index + 1]
         IN  IF m.generation # entity.generation
                \/ m.location.archetype_id = INVALID
             THEN None
             ELSE Some(m.location)
    ELSE None

\* Entities::set
EntitiesSet(ents, index, location) ==
    [ents EXCEPT !.meta[index + 1].location = location]

\* Entities::flush, first half: the cursor from which pending is drained
FlushNewFreeCursorZero(free_cursor) == 0

FlushNewFreeCursor(free_cursor) ==
    IF free_cursor >= 0 THEN free_cursor ELSE 0

\* Entities::flush: meta after the resize, before init runs
FlushMeta(ents) ==
    IF ents.free_cursor >= 0
    THEN ents.meta
    ELSE ents.meta \o [i \in 1..(0 - ents.free_cursor) |-> EntityMetaEMPTY]

\* Entities::flush: the entities init is called with, in call order: the fresh
\* ids old_meta_len.. first, then the drained tail of pending
FlushOrder(ents) ==
    LET nfc == FlushNewFreeCursor(ents.free_cursor)
        meta2 == FlushMeta(ents)
        fresh == [i \in 1..(Len(meta2) - Len(ents.meta)) |->
                     Entity(Len(ents.meta) + i - 1,
                            meta2[Len(ents.meta) + i].generation)]
        drained == [i \in 1..(Len(ents.pending) - nfc) |->
                     Entity(ents.pending[nfc + i],
                            meta2[ents.pending[nfc + i] + 1].generation)]
    IN  fresh \o drained

\* Entities::flush: len after the fresh ids and the drained tail of pending
\* were counted
FlushLen(len, fresh_n, drained_n) == len + fresh_n + drained_n

\* Entities::flush: the allocator after the call, init having stored locs[i]
\* through the &mut location of the i-th entity of FlushOrder
EntitiesFlush(ents, locs) ==
    LET nfc == FlushNewFreeCursor(ents.free_cursor)
        order == FlushOrder(ents)
        meta2 == FlushMeta(ents)
        fresh_n == Len(meta2) - Len(ents.meta)
        meta3 == [i \in 1..Len(meta2) |->
                    IF \E k \in 1..Len(order) : order[k].index = i - 1
                    THEN LET k == CHOOSE k \in 1..Len(order) : order[k].index = i - 1
                         IN  [meta2[i] EXCEPT !.location = locs[k]]
                    ELSE meta2[i]]
    IN  [meta |-> meta3,
         pending |-> SubSeq(ents.pending, 1, nfc),
         free_cursor |-> IF ents.free_cursor >= 0 THEN ents.free_cursor ELSE 0,
         len |-> FlushLen(ents.len, fresh_n, Len(ents.pending) - nfc)]

-----------------------------------------------------------------------------
(* Component types and bundle types known to the program at compile time *)

\* the component types of the program (each a Rust type implementing Component)
ComponentTypes == {"A", "B", "S"}

\* Component::STORAGE_TYPE of each type
STORAGE_TYPE(T) == IF T = "S" THEN "SparseSet" ELSE "Table"

\* the bundle types spawned: tuples of component types, each tuple type a TypeId
BundleTypes == {<<"A">>, <<"S">>, <<"A", "B">>, <<"B", "A">>, <<"A", "S">>,
                <<"A", "A">>}

\* the value a bundle carries for its component of type T; n names the bundle value
Value(n, T) == [init |-> TRUE, spawn |-> n, ty |-> T]

\* a slot of a column whose length was set but which was not written yet
UNINIT == [init |-> FALSE, spawn |-> 0, ty |-> ""]

EmptyMap == [x \in {} |-> 0]

\* Vec::sort on component ids
Sort(s) == SortSeq(s, LAMBDA a, b : a < b)

\* Vec::dedup: drops every element equal to its predecessor
Dedup(s) == SelectSeq([i \in 1..Len(s) |->
                          [v |-> s[i], keep |-> (i = 1 \/ s[i] # s[i - 1])]],
                      LAMBDA x : x.keep)

-----------------------------------------------------------------------------
(* Components: component/component.rs; SparseSets: storage/sparse_set.rs *)

ComponentsDefault == [components |-> <<>>, indices |-> EmptyMap]

\* ComponentSparseSet::new
ComponentSparseSetNew ==
    [dense |-> [data |-> <<>>, added_ticks |-> <<>>, changed_ticks |-> <<>>],
     entities |-> <<>>, sparse |-> EmptyMap]

\* SparseSets::get_or_insert
SparseSetsGetOrInsert(sparse_sets, id) ==
    IF id \in DOMAIN sparse_sets
    THEN sparse_sets
    ELSE (id :> ComponentSparseSetNew) @@ sparse_sets

\* Components::init_component_inner
InitComponentInner(comps, stor, T) ==
    LET component_id == Len(comps.components)
        info == [id |-> component_id, name |-> T, storage_type |-> STORAGE_TYPE(T)]
    IN  [id |-> component_id,
         components |-> [comps EXCEPT !.components = Append(@, info)],
         storages |-> IF info.storage_type = "SparseSet"
                      THEN [stor EXCEPT !.sparse_sets =
                                SparseSetsGetOrInsert(@, component_id)]
                      ELSE stor]

InitComponentAgain(comps, stor, T) ==
    LET r == InitComponentInner(comps, stor, T)
    IN  [id |-> r.id,
         components |-> [r.components EXCEPT !.indices =
             [X \in DOMAIN @ \cup {T} |-> IF X = T THEN r.id ELSE @[X]]],
         storages |-> r.storages]

\* Components::init_component
InitComponent(comps, stor, T) ==
    IF T \in DOMAIN comps.indices
    THEN [id |-> comps.indices[T], components |-> comps, storages |-> stor]
    ELSE LET r == InitComponentInner(comps, stor, T)
         IN  [id |-> r.id,
              components |-> [r.components EXCEPT !.indices = (T :> r.id) @@ @],
              storages |-> r.storages]

\* ComponentInfo::storage_type of a registered id
StorageTypeOf(comps, id) == comps.components[id + 1].storage_type

-----------------------------------------------------------------------------
(* Column, Table: storage/table.rs *)

\* Column::with_capacity
ColumnNew == [data |-> <<>>, added_ticks |-> <<>>, changed_ticks |-> <<>>]

\* Table::allocate: the new row and the table with the row pushed; every column
\* gets its length set (the new slot is not written) and zero ticks pushed
TableAllocate(table, entity) ==
    [row |-> Len(table.entities),
     table |-> [entities |-> Append(table.entities, entity),
                columns |-> [c \in DOMAIN table.columns |->
                    [data |-> Append(table.columns[c].data, UNINIT),
                     added_ticks |-> Append(table.columns[c].added_ticks, 0),
                     changed_ticks |-> Append(table.columns[c].changed_ticks, 0)]]]]

ColumnInitializeKeepsAdded(column, row, data, tick) ==
    [data |-> [column.data EXCEPT ![row + 1] = data],
     added_ticks |-> column.added_ticks,
     changed_ticks |-> [column.changed_ticks EXCEPT ![row + 1] = tick]]

\* Column::initialize
ColumnInitialize(column, row, data, tick) ==
    [data |-> [column.data EXCEPT ![row + 1] = data],
     added_ticks |-> [column.added_ticks EXCEPT ![row + 1] = tick],
     changed_ticks |-> [column.changed_ticks EXCEPT ![row + 1] = tick]]

ColumnReplaceAsInitialize(column, row, data, tick) ==
    ColumnInitialize(column, row, data, tick)

\* Column::replace
ColumnReplace(column, row, data, tick) ==
    [data |-> [column.data EXCEPT ![row + 1] = data],
     added_ticks |-> column.added_ticks,
     changed_ticks |-> [column.changed_ticks EXCEPT ![row + 1] = tick]]

\* Column::push
ColumnPush(column, data, ticks) ==
    [data |-> Append(column.data, data),
     added_ticks |-> Append(column.added_ticks, ticks.added),
     changed_ticks |-> Append(column.changed_ticks, ticks.changed)]

\* Tables of a new world: the table without components has TableId::empty()
TablesNew ==
    [tables |-> <<[columns |-> EmptyMap, entities |-> <<>>]>>,
     table_ids |-> (<<>> :> 0)]

\* Tables::get_id_or_insert: the id of the table keyed by the given component
\* ids, creating the table, with one column per id, when the key is new
TablesGetIdOrInsert(tables, component_ids) ==
    IF component_ids \in DOMAIN tables.table_ids
    THEN [id |-> tables.table_ids[component_ids], tables |-> tables]
    ELSE LET id == Len(tables.tables)
             table == [columns |-> [c \in Range(component_ids) |-> ColumnNew],
                       entities |-> <<>>]
         IN  [id |-> id,
              tables |-> [tables |-> Append(tables.tables, table),
                          table_ids |-> (component_ids :> id) @@ tables.table_ids]]

ComponentSparseSetInsertDropped(set, entity, value, tick) == set

\* ComponentSparseSet::insert
ComponentSparseSetInsert(set, entity, value, tick) ==
    IF entity.index \in DOMAIN set.sparse
    THEN [set EXCEPT !.dense =
              ColumnReplace(@, set.sparse[entity.index], value, tick)]
    ELSE LET dense_index == Len(set.dense.data)
         IN  [dense |-> ColumnPush(set.dense, value,
                            [added |-> tick, changed |-> tick]),
              sparse |-> (entity.index :> dense_index) @@ set.sparse,
              entities |-> Append(set.entities, entity)]

-----------------------------------------------------------------------------
(* Archetype, Archetypes: archetype/archetype.rs; Edges: archetype/edge.rs *)

\* SparseSet::insert on the dense (insertion-ordered) list of an archetype's
\* components: a present key keeps its place and has its value replaced
SparseSetInsert(dense, info) ==
    IF \E i \in 1..Len(dense) : dense[i].id = info.id
    THEN [i \in 1..Len(dense) |-> IF dense[i].id = info.id THEN info ELSE dense[i]]
    ELSE Append(dense, info)

RECURSIVE SparseSetInsertAll(_, _)
SparseSetInsertAll(dense, infos) ==
    IF infos = <<>>
    THEN dense
    ELSE SparseSetInsertAll(SparseSetInsert(dense, Head(infos)), Tail(infos))

\* Archetype::new; the component lists are zipped with ArchetypeComponentIds
\* counted from table_start and sparse_start
ArchetypeNew(id, table_id, table_comps, table_start, sparse_comps, sparse_start) ==
    LET table_infos == [i \in 1..Len(table_comps) |->
                           [id |-> table_comps[i], storage_type |-> "Table",
                            archetype_component_id |-> table_start + i - 1]]
        sparse_infos == [i \in 1..Len(sparse_comps) |->
                           [id |-> sparse_comps[i], storage_type |-> "SparseSet",
                            archetype_component_id |-> sparse_start + i - 1]]
    IN  [id |-> id, table_id |-> table_id, edges |-> EmptyMap, entities |-> <<>>,
         components |-> SparseSetInsertAll(SparseSetInsertAll(<<>>, table_infos),
                                           sparse_infos)]

\* Archetype::contains
ArchetypeContains(archetype, component_id) ==
    \E i \in 1..Len(archetype.components) :
        archetype.components[i].id = component_id

\* Archetype::components
ArchetypeComponents(archetype) ==
    [i \in 1..Len(archetype.components) |-> archetype.components[i].id]

\* Archetype::table_components: every id of self.components, in dense order
\* (the source does not filter by storage type)
table_components(archetype) ==
    [i \in 1..Len(archetype.components) |-> archetype.components[i].id]

\* Archetype::sparse_set_components
sparse_set_components(archetype) ==
    LET kept == SelectSeq(archetype.components,
                          LAMBDA c : c.storage_type = "SparseSet")
    IN  [i \in 1..Len(kept) |-> kept[i].id]

\* Archetype::allocate: the location of the new row and the archetype
ArchetypeRowStale(len) == 0

ArchetypeRowNew(len) == len

\* the EntityLocation Archetype::allocate returns
AllocateLocationInvalid(archetype, archetype_row, table_row) == LocationINVALID

AllocateLocation(archetype, archetype_row, table_row) ==
    Location(archetype.id, archetype_row, archetype.table_id, table_row)

ArchetypeAllocate(archetype, entity, table_row) ==
    [location |-> AllocateLocation(archetype,
                      ArchetypeRowNew(Len(archetype.entities)), table_row),
     archetype |-> [archetype EXCEPT
                      !.entities = Append(@, [entity |-> entity,
                                              table_row |-> table_row])]]

\* Archetypes::new as the source has it: the seeding of the empty archetype is
\* commented out, so no archetype exists
ArchetypesNew ==
    [archetypes |-> <<>>, archetype_component_count |-> 0,
     by_components |-> EmptyMap]

\* Archetypes::generation
ArchetypesGeneration(archs) == Len(archs.archetypes)

\* Archetypes::get_id_or_insert
ArchetypesGetIdOrInsert(archs, table_id, table_comps, sparse_comps) ==
    LET archetype_identity == [table_components |-> table_comps,
                               sparse_set_components |-> sparse_comps]
    IN  IF archetype_identity \in DOMAIN archs.by_components
        THEN [id |-> archs.by_components[archetype_identity], archetypes |-> archs]
        ELSE LET id == Len(archs.archetypes)
                 table_start == archs.archetype_component_count
                 sparse_start == table_start + Len(table_comps)
             IN  [id |-> id,
                  archetypes |->
                    [archetypes |-> Append(archs.archetypes,
                         ArchetypeNew(id, table_id, table_comps, table_start,
                                      sparse_comps, sparse_start)),
                     archetype_component_count |-> sparse_start + Len(sparse_comps),
                     by_components |->
                         (archetype_identity :> id) @@ archs.by_components]]

EdgesGetAddBundleFirst(edges, bundle_id) ==
    IF bundle_id \in DOMAIN edges
    THEN Some(edges[CHOOSE b \in DOMAIN edges :
                       \A c \in DOMAIN edges : b <= c].archetype_id)
    ELSE None

\* Edges::get_add_bundle
EdgesGetAddBundle(edges, bundle_id) ==
    IF bundle_id \in DOMAIN edges
    THEN Some(edges[bundle_id].archetype_id)
    ELSE None

\* Edges::insert_add_bundle on the archetype with the given id
InsertAddBundle(archs, archetype_id, bundle_id, target, bundle_status) ==
    [archs EXCEPT !.archetypes[archetype_id + 1].edges =
        (bundle_id :> [archetype_id |-> target, bundle_status |-> bundle_status])
            @@ @]

-----------------------------------------------------------------------------
(* BundleInfo, Bundles, BundleSpawner: bundle.rs *)

BundlesDefault == [bundle_infos |-> <<>>, bundle_ids |-> EmptyMap]

\* Bundle::component_ids of a tuple: init_component on each element type, in
\* tuple order; ids collects what the closure was called with
RECURSIVE BundleComponentIds(_, _, _, _)
BundleComponentIds(comps, stor, T, ids) ==
    IF T = <<>>
    THEN [ids |-> ids, components |-> comps, storages |-> stor]
    ELSE LET r == InitComponent(comps, stor, Head(T))
         IN  BundleComponentIds(r.components, r.storages, Tail(T),
                                Append(ids, r.id))

HasDuplicateComponentsNever(component_ids) == FALSE

\* BundleInfo::new panics when sort + dedup shortens the id list
HasDuplicateComponents(component_ids) ==
    Len(Dedup(Sort(component_ids))) # Len(component_ids)

\* Bundles::init_info: a cached id, or the ids registered, checked and pushed;
\* when BundleInfo::new panics the entry is not inserted but the component
\* registrations made before it stay
InitInfo(bnd, comps, stor, T) ==
    IF T \in DOMAIN bnd.bundle_ids
    THEN [panic |-> FALSE, id |-> bnd.bundle_ids[T], bundles |-> bnd,
          components |-> comps, storages |-> stor]
    ELSE LET r == BundleComponentIds(comps, stor, T, <<>>)
             id == Len(bnd.bundle_infos)
         IN  IF HasDuplicateComponents(r.ids)
             THEN [panic |-> TRUE, id |-> INVALID, bundles |-> bnd,
                   components |-> r.components, storages |-> r.storages]
             ELSE [panic |-> FALSE, id |-> id,
                   bundles |-> [bundle_infos |-> Append(bnd.bundle_infos,
                                    [id |-> id, component_ids |-> r.ids]),
                                bundle_ids |-> (T :> id) @@ bnd.bundle_ids],
                   components |-> r.components, storages |-> r.storages]

\* BundleInfo::add_bundle_to_archetype: the resulting archetype id, and the
\* archetypes and storages after the call
AddBundleToArchetype(bundle_info, archs, stor, comps, archetype_id) ==
    LET current_archetype == archs.archetypes[archetype_id + 1]
        ids == bundle_info.component_ids
    IN
    IF EdgesGetAddBundle(current_archetype.edges, bundle_info.id) # None
    THEN [id |-> EdgesGetAddBundle(current_archetype.edges, bundle_info.id).val,
          archetypes |-> archs, storages |-> stor]
    ELSE
    LET bundle_status == [i \in 1..Len(ids) |->
            IF ArchetypeContains(current_archetype, ids[i])
            THEN "Mutated" ELSE "Added"]
        new_table_components == SelectSeq(ids, LAMBDA c :
            ~ArchetypeContains(current_archetype, c)
            /\ StorageTypeOf(comps, c) = "Table")
        new_sparse_set_components == SelectSeq(ids, LAMBDA c :
            ~ArchetypeContains(current_archetype, c)
            /\ StorageTypeOf(comps, c) = "SparseSet")
    IN
    IF new_table_components = <<>> /\ new_sparse_set_components = <<>>
    THEN [id |-> archetype_id,
          archetypes |-> InsertAddBundle(archs, archetype_id, bundle_info.id,
                                         archetype_id, bundle_status),
          storages |-> stor]
    ELSE
    LET table_comps ==
            IF new_table_components = <<>>
            THEN table_components(current_archetype)
            ELSE Sort(new_table_components \o table_components(current_archetype))
        tbl == IF new_table_components = <<>>
               THEN [id |-> current_archetype.table_id, tables |-> stor.tables]
               ELSE TablesGetIdOrInsert(stor.tables, table_comps)
        sparse_comps ==
            IF new_sparse_set_components = <<>>
            THEN sparse_set_components(current_archetype)
            ELSE Sort(new_sparse_set_components
                      \o sparse_set_components(current_archetype))
        r == ArchetypesGetIdOrInsert(archs, tbl.id, table_comps, sparse_comps)
    IN  [id |-> r.id,
         archetypes |-> InsertAddBundle(r.archetypes, archetype_id,
                                        bundle_info.id, r.id, bundle_status),
         storages |-> [stor EXCEPT !.tables = tbl.tables]]

\* BundleInfo::write_components with SpawnBundleStatus (every component Added):
\* the i-th value of the bundle goes to the column, or the sparse set, of
\* component_ids[i]
RECURSIVE WriteComponents(_, _, _, _, _, _, _, _)
WriteComponents(bundle_info, table, sparse_sets, entity, table_row, tick, T, n) ==
    IF T = <<>>
    THEN [table |-> table, sparse_sets |-> sparse_sets]
    ELSE
    LET bundle_component == Len(bundle_info.component_ids) - Len(T)
        component_id == bundle_info.component_ids[bundle_component + 1]
        value == Value(n, Head(T))
    IN  IF STORAGE_TYPE(Head(T)) = "Table"
        THEN WriteComponents(bundle_info,
                 [table EXCEPT !.columns[component_id] =
                      ColumnInitialize(@, table_row, value, tick)],
                 sparse_sets, entity, table_row, tick, Tail(T), n)
        ELSE WriteComponents(bundle_info, table,
                 [sparse_sets EXCEPT ![component_id] =
                      ComponentSparseSetInsert(@, entity, value, tick)],
                 entity, table_row, tick, Tail(T), n)

-----------------------------------------------------------------------------
(* World: world/world.rs.  A world value w is the record of the fields        *)
(* entities, components, storages, archetypes and bundles.                   *)

\* ArchetypeId::EMPTY
ArchetypeIdEMPTY == 0

\* World::new: empty registries, the table without columns as table 0 and the
\* archetype without components as archetype 0
WorldNew ==
    [entities |-> EntitiesNew,
     components |-> ComponentsDefault,
     storages |-> [tables |-> TablesNew, sparse_sets |-> EmptyMap],
     archetypes |-> ArchetypesGetIdOrInsert(ArchetypesNew, 0, <<>>, <<>>).archetypes,
     bundles |-> BundlesDefault]

\* the closure World::flush_entities passes to Entities::flush, applied to the
\* entities of order one after the other: a row of the table, then a row of
\* the empty archetype, whose location is stored
RECURSIVE FlushInit(_, _, _, _)
FlushInit(empty_archetype, table, order, locs) ==
    IF order = <<>>
    THEN [archetype |-> empty_archetype, table |-> table, locs |-> locs]
    ELSE LET t == TableAllocate(table, Head(order))
             a == ArchetypeAllocate(empty_archetype, Head(order), t.row)
         IN  FlushInit(a.archetype, t.table, Tail(order),
                       Append(locs, a.location))

WorldFlushEntitiesSkipped(w) == w

\* World::flush_entities
WorldFlushEntities(w) ==
    LET empty_archetype == w.archetypes.archetypes[ArchetypeIdEMPTY + 1]
        table_id == empty_archetype.table_id
        r == FlushInit(empty_archetype, w.storages.tables.tables[table_id + 1],
                       FlushOrder(w.entities), <<>>)
    IN  [w EXCEPT
            !.entities = EntitiesFlush(w.entities, r.locs),
            !.archetypes.archetypes[ArchetypeIdEMPTY + 1] = r.archetype,
            !.storages.tables.tables[table_id + 1] = r.table]

\* BundleSpawner::spawn_non_existent for the bundle value n of type T
SpawnNonExistent(w, bundle_info, archetype_id, entity, tick, T, n) ==
    LET archetype == w.archetypes.archetypes[archetype_id + 1]
        table_id == archetype.table_id
        t == TableAllocate(w.storages.tables.tables[table_id + 1], entity)
        a == ArchetypeAllocate(archetype, entity, t.row)
        wr == WriteComponents(bundle_info, t.table, w.storages.sparse_sets,
                              entity, t.row, tick, T, n)
    IN  [w EXCEPT
            !.storages.tables.tables[table_id + 1] = wr.table,
            !.storages.sparse_sets = wr.sparse_sets,
            !.archetypes.archetypes[archetype_id + 1] = a.archetype,
            !.entities = EntitiesSet(w.entities, entity.index, a.location)]

\* BundleSpawner::new_with_id, given what add_bundle_to_archetype from the
\* empty archetype returned
SpawnerWith(w, bundle_info, ab) ==
    [panic |-> FALSE, bundle_info |-> bundle_info, archetype_id |-> ab.id,
     world |-> [w EXCEPT !.archetypes = ab.archetypes, !.storages = ab.storages]]

\* BundleSpawner::new_with_id
BundleSpawnerNewWithId(w, bundle_id) ==
    SpawnerWith(w, w.bundles.bundle_infos[bundle_id + 1],
                AddBundleToArchetype(w.bundles.bundle_infos[bundle_id + 1],
                    w.archetypes, w.storages, w.components, ArchetypeIdEMPTY))

\* BundleSpawner::new, given what init_info returned
SpawnerOfInfo(w, ii) ==
    IF ii.panic
    THEN [panic |-> TRUE, bundle_info |-> <<>>, archetype_id |-> INVALID,
          world |-> [w EXCEPT !.bundles = ii.bundles,
                              !.components = ii.components,
                              !.storages = ii.storages]]
    ELSE BundleSpawnerNewWithId(
             [w EXCEPT !.bundles = ii.bundles, !.components = ii.components,
                       !.storages = ii.storages], ii.id)

\* BundleSpawner::new::<T>
BundleSpawnerNew(w, T) ==
    SpawnerOfInfo(w, InitInfo(w.bundles, w.components, w.storages, T))

\* World::spawn from BundleSpawner::new on, for the entity alloc returned
SpawnEntity(entity, spawner, tick, T, n) ==
    IF spawner.panic
    THEN [panic |-> TRUE, entity |-> entity, world |-> spawner.world]
    ELSE [panic |-> FALSE, entity |-> entity,
          world |-> SpawnNonExistent(spawner.world, spawner.bundle_info,
                        spawner.archetype_id, entity, tick, T, n)]

\* World::spawn from entities.alloc() on, al being what alloc returned
SpawnAllocated(w, al, tick, T, n) ==
    SpawnEntity(al.entity, BundleSpawnerNew([w EXCEPT !.entities = al.ents], T),
                tick, T, n)

\* World::spawn after flush_entities
SpawnFlushed(w, tick, T, n) ==
    SpawnAllocated(w, EntitiesAlloc(w.entities), tick, T, n)

\* World::spawn of the bundle value n of type T at the given change tick:
\* flush_entities, alloc, BundleSpawner::new (init_info, which may panic, and
\* add_bundle_to_archetype from the empty archetype), spawn_non_existent
WorldSpawn(w, tick, T, n) ==
    SpawnFlushed(WorldFlushEntities(w), tick, T, n)

-----------------------------------------------------------------------------
(* The initial state: a new world, no thread inside reserve_entity *)

\* no QueryState was built yet
NoQuery == [built |-> FALSE]

\* the world value made of the state variables
TheWorld ==
    [entities |-> entities, components |-> components, storages |-> storages,
     archetypes |-> archetypes, bundles |-> bundles]

Idle == [pc |-> "idle", n |-> 0]

AllIdle == \A t \in Threads : threads[t].pc = "idle"

Init ==
    /\ entities = WorldNew.entities
    /\ components = WorldNew.components
    /\ storages = WorldNew.storages
    /\ archetypes = WorldNew.archetypes
    /\ bundles = WorldNew.bundles
    /\ change_tick = 1
    /\ threads = [t \in Threads |-> Idle]
    /\ qs = NoQuery
    /\ panicked = "none"
    /\ vended = <<>>
    /\ reserved = <<>>
    /\ dead = EmptyMap
    /\ reach = {[set |-> {}, id |-> ArchetypeIdEMPTY, table_id |-> 0]}
    /\ given = EmptyMap
    /\ last = [op |-> "new"]

-----------------------------------------------------------------------------
(* Operations of the entity allocator: entity/entity.rs *)

\* the entity handles a caller may pass to free and get
Handles == {Entity(i, g) : i \in 0..(MaxMeta - 1), g \in 1..GenMax}

\* the locations a caller stores with set, and the init closure with flush
ValidLocations == {Location(0, 0, 0, 0)}

\* reserve_entity, first step: the atomic free_cursor.fetch_sub(1); n is the
\* value it returned
ReserveFetchSub(t) ==
    /\ panicked = "none"
    /\ threads[t].pc = "idle"
    /\ Len(reserved) + Cardinality({u \in Threads : threads[u].pc # "idle"})
           < MaxReserved
    /\ Len(entities.meta) - Min(entities.free_cursor, 0) < MaxMeta
           \/ entities.free_cursor > 0
    /\ threads' = [threads EXCEPT ![t] = [pc |-> "fetched",
                                          n |-> entities.free_cursor]]
    /\ entities' = [entities EXCEPT !.free_cursor = @ - 1]
    /\ last' = [op |-> "fetch_sub", thread |-> t]
    /\ UNCHANGED <<components, storages, archetypes, bundles, change_tick, qs,
                   panicked, vended, reserved, dead, reach, given>>

\* reserve_entity, second step: the entity is read from pending and meta, or
\* built from meta.len(), and returned
ReserveReturn(t) ==
    /\ panicked = "none"
    /\ threads[t].pc = "fetched"
    /\ LET entity == ReserveEntityOf(entities, threads[t].n)
       IN  /\ reserved' = Append(reserved, entity)
           /\ last' = [op |-> "reserve_entity", thread |-> t, entity |-> entity]
    /\ threads' = [threads EXCEPT ![t] = Idle]
    /\ UNCHANGED <<entities, components, storages, archetypes, bundles,
                   change_tick, qs, panicked, vended, dead, reach, given>>

\* verify_flushed fails: alloc or free was called while reservations are pending
VerifyFlushedPanics(op) ==
    /\ panicked = "none"
    /\ AllIdle
    /\ NeedsFlush(entities)
    /\ panicked' = "flush() needs to be called before this operation is legal"
    /\ last' = [op |-> op]
    /\ UNCHANGED <<entities, threads, components, storages, archetypes, bundles,
                   change_tick, qs, vended, reserved, dead, reach, given>>

\* Entities::alloc
Alloc ==
    \/ VerifyFlushedPanics("alloc")
    \/ /\ panicked = "none"
       /\ AllIdle
       /\ ~NeedsFlush(entities)
       /\ Len(entities.meta) < MaxMeta \/ Len(entities.pending) > 0
       /\ \E r \in {EntitiesAlloc(entities)} :
              /\ entities' = r.ents
              /\ vended' = Append(vended, r.entity)
              /\ last' = [op |-> "alloc", entity |-> r.entity]
       /\ UNCHANGED <<threads, components, storages, archetypes, bundles,
                      change_tick, qs, panicked, reserved, dead, reach, given>>

\* the history of freed handles after free(entity) succeeded: every handle of
\* the same index freed before has seen one more free of its index (counted up
\* to GenMax), and entity has seen none
DeadAfterFree(entity) ==
    [e \in DOMAIN dead \cup {entity} |->
        IF e = entity THEN 0
        ELSE IF e.index = entity.index THEN Min(dead[e] + 1, GenMax)
        ELSE dead[e]]

\* Entities::free
Free(entity) ==
    \/ VerifyFlushedPanics("free")
    \/ /\ panicked = "none"
       /\ AllIdle
       /\ ~NeedsFlush(entities)
       /\ IF FreeIsErr(entities, entity)
          THEN /\ last' = [op |-> "free", entity |-> entity, ok |-> FALSE]
               /\ UNCHANGED <<entities, vended, dead>>
          ELSE \E r \in {EntitiesFree(entities, entity)} :
                   /\ entities' = r.ents
                   /\ vended' = SelectSeq(vended, LAMBDA v : v # entity)
                   /\ dead' = DeadAfterFree(entity)
                   /\ last' = [op |-> "free", entity |-> entity, ok |-> TRUE,
                               loc |-> r.loc]
       /\ UNCHANGED <<threads, components, storages, archetypes, bundles,
                      change_tick, qs, panicked, reserved, reach, given>>

\* Entities::set on an allocated entity
Set(entity, location) ==
    /\ panicked = "none"
    /\ AllIdle
    /\ entity \in Range(vended)
    /\ entities' = EntitiesSet(entities, entity.index, location)
    /\ last' = [op |-> "set", entity |-> entity]
    /\ UNCHANGED <<threads, components, storages, archetypes, bundles,
                   change_tick, qs, panicked, vended, reserved, dead, reach, given>>

\* Entities::flush(init), init storing location through its &mut location, or
\* leaving it as it is when location is LocationINVALID
Flush(location) ==
    /\ panicked = "none"
    /\ AllIdle
    /\ \E order \in {FlushOrder(entities)} :
           /\ entities' = EntitiesFlush(entities,
                              [i \in 1..Len(order) |-> location])
           /\ vended' = vended \o order
           /\ last' = [op |-> "flush", init |-> order, reserved |-> reserved,
                       meta_len |-> Len(entities.meta)]
    /\ reserved' = <<>>
    /\ UNCHANGED <<threads, components, storages, archetypes, bundles,
                   change_tick, qs, panicked, dead, reach, given>>

NextEntities ==
    \/ \E t \in Threads : ReserveFetchSub(t)
    \/ \E t \in Threads : ReserveReturn(t)
    \/ Alloc
    \/ \E entity \in Handles : Free(entity)
    \/ \E entity \in Handles, location \in ValidLocations : Set(entity, location)
    \/ \E location \in ValidLocations \cup {LocationINVALID} : Flush(location)

SpecEntities == Init /\ [][NextEntities]_vars

-----------------------------------------------------------------------------
(* Properties of the entity allocator, checked under SpecEntities *)

\* every entity handed out and not freed: allocated or flushed, or reserved
Held == vended \o reserved

\* C2: in every reachable state of the allocator no two entities that were
\* handed out (by alloc, or by reserve_entity and flush) and not yet freed share
\* an index; freed (index, generation) pairs may exist beside the live one.
C2_OneLivePerIndex ==
    \A i, j \in 1..Len(Held) : i # j => Held[i].index # Held[j].index

\* C2 witness: an index whose live entity coexists with two freed handles of
\* the same index, while another entity is reserved
C2_Witness ==
    /\ Len(reserved) >= 1
    /\ \E v \in Range(vended) :
          Cardinality({d \in DOMAIN dead : d.index = v.index /\ d # v}) >= 2

\* C3 as stated: once free(e) succeeded, get(e) is None and free(e) is an error
\* in every later state, after any number of reuse cycles of e's index.
C3_StaleAlwaysDetected ==
    \A e \in DOMAIN dead :
        EntitiesGet(entities, e) = None /\ FreeIsErr(entities, e)

\* C3, amended: once free(e) succeeded, get(e) is None and free(e) is an error
\* in every later state in which fewer than GenMax - 1 further frees of e's
\* index have succeeded (the generation returns to e's after GenMax - 1 more).
C3_StaleDetectedUntilWrap ==
    \A e \in DOMAIN dead :
        dead[e] < GenMax - 1 =>
            EntitiesGet(entities, e) = None /\ FreeIsErr(entities, e)

\* C3 witness: a freed handle whose index went through a further reuse cycle
\* and is live again under a newer generation
C3_Witness ==
    \E e \in DOMAIN dead :
        /\ dead[e] >= 1
        /\ dead[e] < GenMax - 1
        /\ \E v \in Range(vended) :
              v.index = e.index /\ EntitiesGet(entities, v) # None

\* the threads between the two steps of reserve_entity
InFlight == {t \in Threads : threads[t].pc = "fetched"}

\* C4: for any interleaving of concurrent reserve_entity calls between two
\* flushes, the entities returned, and those about to be returned, have
\* pairwise distinct indices, none of them the index of a live entity.
C4_ReservedIndexUnique ==
    /\ \A i, j \in 1..Len(reserved) :
          i # j => reserved[i].index # reserved[j].index
    /\ \A i \in 1..Len(reserved), v \in Range(vended) :
          reserved[i].index # v.index
    /\ \A t \in InFlight :
          LET e == ReserveEntityOf(entities, threads[t].n)
          IN  /\ \A i \in 1..Len(reserved) : reserved[i].index # e.index
              /\ \A v \in Range(vended) : v.index # e.index
              /\ \A u \in InFlight \ {t} :
                    ReserveEntityOf(entities, threads[u].n).index # e.index

\* C4 witness: two reservations returned, one recycling a freed index and one
\* with a fresh index, beside a live entity; thread 2 returned before thread 1
C4_Witness ==
    /\ Len(reserved) = 2
    /\ \E i \in 1..2 : reserved[i].generation > 1
    /\ \E i \in 1..2 : reserved[i].index >= Len(entities.meta)
    /\ Len(vended) >= 1
    /\ last.op = "reserve_entity" /\ last.thread = 1

\* how often e occurs in the sequence s
Count(s, e) == Cardinality({k \in 1..Len(s) : s[k] = e})

\* C5: after reserve_entity calls followed by flush(init), init was invoked
\* exactly once for each entity those calls returned, with its index and
\* generation, and for no other entity; each flushed index has its slot in meta;
\* needs_flush() is false; a second flush would invoke init zero times.
C5_FlushInitOncePerReserved ==
    last.op = "flush" =>
        /\ \A e \in Range(last.reserved) : Count(last.init, e) = 1
        /\ Range(last.init) \subseteq Range(last.reserved)
        /\ Len(last.init) = Len(last.reserved)
        /\ \A e \in Range(last.init) :
              /\ e.index < Len(entities.meta)
              /\ entities.meta[e.index + 1].generation = e.generation
        /\ Len(entities.meta) =
              last.meta_len
              + Cardinality({e \in Range(last.init) : e.index >= last.meta_len})
        /\ ~NeedsFlush(entities)
        /\ FlushOrder(entities) = <<>>

\* C5 witness: a flush after two reservations, one of a recycled index and one
\* of a fresh index
C5_Witness ==
    /\ last.op = "flush"
    /\ Len(last.init) = 2
    /\ \E e \in Range(last.init) : e.generation > 1
    /\ \E e \in Range(last.init) : e.index >= last.meta_len

-----------------------------------------------------------------------------
(* QueryState: query/state.rs; QueryIterationCursor: query/iter.rs;          *)
(* WorldQuery for &T: query/world_query.rs.  A query type D is the tuple of  *)
(* the component types it reads; the filter is ().                           *)

QueryTypes == {<<"A">>, <<"B">>, <<"A", "B">>, <<"S">>, <<"A", "S">>}

\* WorldQuery::IS_DENSE of &T, and of a tuple the conjunction over its elements
IS_DENSE(D) == \A i \in 1..Len(D) : STORAGE_TYPE(D[i]) = "Table"

\* WorldQuery::init_state: world.init_component for each element, in order
RECURSIVE QueryInitState(_, _, _, _)
QueryInitState(comps, stor, D, state) ==
    IF D = <<>>
    THEN [state |-> state, components |-> comps, storages |-> stor]
    ELSE LET r == InitComponent(comps, stor, Head(D))
         IN  QueryInitState(r.components, r.storages, Tail(D),
                            Append(state, r.id))

\* WorldQuery::matches_component_set of &T, and of a tuple the conjunction
MatchesComponentSet(fetch_state, archetype) ==
    \A i \in 1..Len(fetch_state) : ArchetypeContains(archetype, fetch_state[i])

\* World::id of the world the model drives, the first id WorldId::next vends
TheWorldId == 0

\* the ids of the worlds a caller can hand to a QueryState
WorldIds == {TheWorldId, TheWorldId + 1}

\* QueryState::new_uninitialized; examined is the history of the archetypes
\* handed to new_archetype_internal
QueryStateNewUninitialized(D, fetch_state) ==
    [built |-> TRUE, D |-> D,
     world_id |-> TheWorldId,
     archetype_generation |-> ArchetypeIdEMPTY,
     matched_storage_ids |-> <<>>,
     fetch_state |-> fetch_state,
     matched_tables |-> {},
     matched_archetypes |-> {},
     examined |-> <<>>]

\* the test of new_archetype_internal whether the table was matched before
TableNeverMatched(state, table_index) == FALSE

TableAlreadyMatched(state, table_index) == table_index \in state.matched_tables

\* QueryState::new_archetype_internal
NewArchetypeInternal(state, archetype) ==
    LET seen == [state EXCEPT !.examined = Append(@, archetype.id)]
    IN
    IF MatchesComponentSet(state.fetch_state, archetype)
    THEN LET archetype_index == archetype.id
             s1 == IF archetype_index \notin seen.matched_archetypes
                   THEN [seen EXCEPT
                           !.matched_archetypes = @ \cup {archetype_index},
                           !.matched_storage_ids =
                               IF ~IS_DENSE(state.D)
                               THEN Append(@, archetype.id) ELSE @]
                   ELSE seen
             table_index == archetype.table_id
         IN  IF ~TableAlreadyMatched(s1, table_index)
             THEN [s1 EXCEPT
                     !.matched_tables = @ \cup {table_index},
                     !.matched_storage_ids =
                         IF IS_DENSE(state.D)
                         THEN Append(@, archetype.table_id) ELSE @]
             ELSE s1
    ELSE seen

RECURSIVE NewArchetypes(_, _)
NewArchetypes(state, archetype_slice) ==
    IF archetype_slice = <<>>
    THEN state
    ELSE NewArchetypes(NewArchetypeInternal(state, Head(archetype_slice)),
                       Tail(archetype_slice))

\* QueryState::update_archetypes: the generation is replaced by the current
\* one, then every archetype from the old generation on is examined
UpdateArchetypes(state, archs) ==
    LET old_generation == state.archetype_generation
    IN  NewArchetypes(
            [state EXCEPT !.archetype_generation = ArchetypesGeneration(archs)],
            SubSeq(archs.archetypes, old_generation + 1, Len(archs.archetypes)))

\* QueryState::new
QueryStateNew(w, D) ==
    LET r == QueryInitState(w.components, w.storages, D, <<>>)
    IN  [state |-> UpdateArchetypes(QueryStateNewUninitialized(D, r.state),
                                    w.archetypes),
         world |-> [w EXCEPT !.components = r.components,
                             !.storages = r.storages]]

\* WorldQuery::fetch of a dense query at a table row: for each element the
\* slot of the column set by set_table
FetchFirstRow(fetch_state, table, table_row) ==
    [i \in 1..Len(fetch_state) |-> table.columns[fetch_state[i]].data[1]]

Fetch(fetch_state, table, table_row) ==
    [i \in 1..Len(fetch_state) |->
        table.columns[fetch_state[i]].data[table_row + 1]]

\* QueryIterationCursor::init
CursorInit(state) ==
    [storage_id_iter |-> state.matched_storage_ids,
     table_id |-> INVALID, current_len |-> 0, current_row |-> 0]

CursorRowReversed(cursor) == cursor.current_len - 1 - cursor.current_row

\* the row QueryIterationCursor::next reads the entity of: current_row
CursorRow(cursor) == cursor.current_row

\* QueryIterationCursor::next, dense branch, called until it returns None:
\* yielded collects the items, each with the entity of its row
RECURSIVE CursorDrain(_, _, _, _)
CursorDrain(cursor, tables, state, yielded) ==
    IF cursor.current_row = cursor.current_len
    THEN IF cursor.storage_id_iter = <<>>
         THEN yielded
         ELSE LET table_id == Head(cursor.storage_id_iter)
                  table == tables.tables[table_id + 1]
              IN  CursorDrain([storage_id_iter |-> Tail(cursor.storage_id_iter),
                               table_id |-> table_id,
                               current_len |-> Len(table.entities),
                               current_row |-> 0],
                              tables, state, yielded)
    ELSE LET table == tables.tables[cursor.table_id + 1]
             entity == table.entities[CursorRow(cursor) + 1]
             item == Fetch(state.fetch_state, table, cursor.current_row)
         IN  CursorDrain([cursor EXCEPT !.current_row = @ + 1], tables, state,
                         Append(yielded, [entity |-> entity, item |-> item]))

-----------------------------------------------------------------------------
(* Operations of the world: world/world.rs, query/state.rs *)

\* the bundle value of the next spawn: callers spawn pairwise different values
NextValue == Cardinality(DOMAIN given) + 1

\* an entity flushed into the empty archetype carries no component
NoBundle == [T |-> <<>>, n |-> 0]

GivenAfterFlush(order) ==
    [e \in DOMAIN given \cup Range(order) |->
        IF e \in Range(order) THEN NoBundle ELSE given[e]]

\* World::flush_entities
FlushEntities ==
    /\ panicked = "none"
    /\ AllIdle
    /\ \E w \in {WorldFlushEntities(TheWorld)}, order \in {FlushOrder(entities)} :
           /\ entities' = w.entities
           /\ archetypes' = w.archetypes
           /\ storages' = w.storages
           /\ vended' = vended \o order
           /\ given' = GivenAfterFlush(order)
           /\ last' = [op |-> "flush_entities", flushed |-> reserved]
    /\ reserved' = <<>>
    /\ UNCHANGED <<threads, components, bundles, change_tick, qs, panicked,
                   dead, reach>>

\* World::spawn(bundle) for the bundle value n of type T
Spawn(T, n) ==
    /\ panicked = "none"
    /\ AllIdle
    /\ Len(FlushMeta(entities)) < MaxMeta
    /\ \E r \in {WorldSpawn(TheWorld, change_tick, T, n)},
          order \in {FlushOrder(entities)} :
           /\ entities' = r.world.entities
           /\ components' = r.world.components
           /\ storages' = r.world.storages
           /\ archetypes' = r.world.archetypes
           /\ bundles' = r.world.bundles
           /\ IF r.panic
              THEN /\ panicked' = "Bundle has duplicate components"
                   /\ vended' = vended \o order
                   /\ given' = GivenAfterFlush(order)
              ELSE /\ panicked' = panicked
                   /\ vended' = (vended \o order) \o <<r.entity>>
                   /\ given' = (r.entity :> [T |-> T, n |-> n])
                                   @@ GivenAfterFlush(order)
           /\ last' = [op |-> "spawn", flushed |-> reserved,
                       entity |-> r.entity, T |-> T]
    /\ reserved' = <<>>
    /\ UNCHANGED <<threads, change_tick, qs, dead, reach>>

\* QueryState::new(world) for the query type D
QueryNew(D) ==
    /\ panicked = "none"
    /\ AllIdle
    /\ qs = NoQuery
    /\ \E r \in {QueryStateNew(TheWorld, D)} :
           /\ qs' = r.state
           /\ components' = r.world.components
           /\ storages' = r.world.storages
           /\ last' = [op |-> "query_new", before |-> 0,
                       generation |-> ArchetypesGeneration(archetypes)]
    /\ UNCHANGED <<entities, threads, archetypes, bundles, change_tick, panicked,
                   vended, reserved, dead, reach, given>>

\* QueryState::update_archetypes(world)
QueryUpdate ==
    /\ panicked = "none"
    /\ qs.built
    /\ qs' = UpdateArchetypes(qs, archetypes)
    /\ last' = [op |-> "update_archetypes", before |-> qs.archetype_generation,
                generation |-> ArchetypesGeneration(archetypes)]
    /\ UNCHANGED <<entities, threads, components, storages, archetypes, bundles,
                   change_tick, panicked, vended, reserved, dead, reach, given>>

\* QueryState::iter(world), driven to its end, of a query over table components
QueryIter ==
    /\ panicked = "none"
    /\ qs.built
    /\ IS_DENSE(qs.D)
    /\ \E state \in {UpdateArchetypes(qs, archetypes)} :
           /\ qs' = state
           /\ last' = [op |-> "iter", before |-> qs.archetype_generation,
                       generation |-> ArchetypesGeneration(archetypes),
                       yielded |-> CursorDrain(CursorInit(state),
                                       storages.tables, state, <<>>)]
    /\ UNCHANGED <<entities, threads, components, storages, archetypes, bundles,
                   change_tick, panicked, vended, reserved, dead, reach, given>>

ValidateWorldNever(state, world_id) == FALSE

\* QueryState::validate_world panics
ValidateWorldPanics(state, world_id) == state.world_id # world_id

\* QueryState::update_archetypes(world) or QueryState::iter(world), called
\* with another world than the one the model drives, a new world with the id
\* world_id: validate_world is the first statement of
\* update_archetypes_unsafe_world_cell, with which iter begins
QueryOtherWorld(caller, world_id) ==
    /\ panicked = "none"
    /\ qs.built
    /\ world_id # TheWorldId
    /\ IF ValidateWorldPanics(qs, world_id)
       THEN /\ panicked' = "Encountered a mismatched World"
            /\ UNCHANGED qs
       ELSE /\ qs' = UpdateArchetypes(qs, WorldNew.archetypes)
            /\ UNCHANGED panicked
    /\ last' = [op |-> "validate_world", caller |-> caller,
                world_id |-> world_id]
    /\ UNCHANGED <<entities, threads, components, storages, archetypes, bundles,
                   change_tick, vended, reserved, dead, reach, given>>

NextWorld ==
    \/ \E t \in Threads : ReserveFetchSub(t)
    \/ \E t \in Threads : ReserveReturn(t)
    \/ FlushEntities
    \/ \E T \in BundleTypes : Spawn(T, NextValue)
    \/ \E D \in QueryTypes : QueryNew(D)
    \/ QueryUpdate
    \/ QueryIter
    \/ \E caller \in {"update_archetypes", "iter"}, world_id \in WorldIds :
           QueryOtherWorld(caller, world_id)

SpecWorld == Init /\ [][NextWorld]_vars

-----------------------------------------------------------------------------
(* Properties of the world, checked under SpecWorld *)

\* the entities handed out by completed calls and not freed
Live == Range(vended)

ArchetypeOf(id) == archetypes.archetypes[id + 1]

TableOf(id) == storages.tables.tables[id + 1]

\* the location L stored for e names the archetype row and the table row of e
LocationConsistent(e, L) ==
    /\ L.archetype_id \in 0..(Len(archetypes.archetypes) - 1)
    /\ L.archetype_row \in 0..(Len(ArchetypeOf(L.archetype_id).entities) - 1)
    /\ ArchetypeOf(L.archetype_id).entities[L.archetype_row + 1]
           = [entity |-> e, table_row |-> L.table_row]
    /\ ArchetypeOf(L.archetype_id).table_id = L.table_id
    /\ L.table_id \in 0..(Len(storages.tables.tables) - 1)
    /\ L.table_row \in 0..(Len(TableOf(L.table_id).entities) - 1)
    /\ TableOf(L.table_id).entities[L.table_row + 1] = e

\* C1: after any sequence of spawn and flush_entities calls, every live entity
\* e has a location L with archetypes[L.archetype_id].entities[L.archetype_row]
\* = (e, L.table_row), that archetype's table_id = L.table_id and
\* tables[L.table_id].entities[L.table_row] = e; conversely every archetype row
\* and every table row is the row of exactly one live entity.
C1_LocationsConsistent ==
    /\ \A e \in Live :
          /\ EntitiesGet(entities, e) # None
          /\ LocationConsistent(e, EntitiesGet(entities, e).val)
    /\ \A a \in 1..Len(archetypes.archetypes) :
          \A r \in 1..Len(archetypes.archetypes[a].entities) :
              LET e == archetypes.archetypes[a].entities[r].entity
              IN  /\ e \in Live
                  /\ EntitiesGet(entities, e) # None
                  /\ EntitiesGet(entities, e).val.archetype_id = a - 1
                  /\ EntitiesGet(entities, e).val.archetype_row = r - 1
    /\ \A t \in 1..Len(storages.tables.tables) :
          \A r \in 1..Len(storages.tables.tables[t].entities) :
              LET e == storages.tables.tables[t].entities[r]
              IN  /\ e \in Live
                  /\ EntitiesGet(entities, e) # None
                  /\ EntitiesGet(entities, e).val.table_id = t - 1
                  /\ EntitiesGet(entities, e).val.table_row = r - 1

\* C1 witness: a spawned entity in the second row of an archetype with
\* components, beside an entity flushed into the empty archetype
C1_Witness ==
    /\ \E e \in Live :
          /\ EntitiesGet(entities, e) # None
          /\ EntitiesGet(entities, e).val.archetype_id # ArchetypeIdEMPTY
          /\ EntitiesGet(entities, e).val.archetype_row >= 1
    /\ Len(ArchetypeOf(ArchetypeIdEMPTY).entities) >= 1

\* e is a row of some archetype or of some table
InStorage(e) ==
    \/ \E a \in 1..Len(archetypes.archetypes) :
          \E r \in 1..Len(archetypes.archetypes[a].entities) :
              archetypes.archetypes[a].entities[r].entity = e
    \/ \E t \in 1..Len(storages.tables.tables) :
          e \in Range(storages.tables.tables[t].entities)

Having(D) == {e \in Live : Range(D) \subseteq Range(given[e].T)}

\* C7: iterating a query over table-stored components (&T, or a tuple) yields
\* exactly the live entities whose component set contains every queried
\* component, each once and with its own values; an entity lacking a queried
\* component is not yielded; a query no entity satisfies yields nothing.
C7_QueryYieldsExactlyMatching ==
    last.op = "iter" =>
        /\ {last.yielded[k].entity : k \in 1..Len(last.yielded)} = Having(qs.D)
        /\ Len(last.yielded) = Cardinality(Having(qs.D))
        /\ \A k \in 1..Len(last.yielded) :
              last.yielded[k].item =
                  [i \in 1..Len(qs.D) |->
                      Value(given[last.yielded[k].entity].n, qs.D[i])]

\* C7 witness: a tuple query has yielded two entities spawned with bundles of
\* different component order, and left out a live entity lacking a component
C7_Witness ==
    /\ last.op = "iter"
    /\ Len(qs.D) = 2
    /\ \E j, k \in 1..Len(last.yielded) :
          given[last.yielded[j].entity].T # given[last.yielded[k].entity].T
    /\ \E e \in Live : given[e].T # <<>> /\ e \notin Having(qs.D)

\* the archetypes the query has examined that contain every queried component
MatchingExamined ==
    {a \in Range(qs.examined) :
        \A T \in Range(qs.D) :
            /\ T \in DOMAIN components.indices
            /\ components.indices[T] \in Range(ArchetypeComponents(ArchetypeOf(a)))}

\* C8: update_archetypes, run by QueryState::new and by every iter(), examines
\* exactly the archetypes added since the previous update, so each archetype
\* once over the query's life, sets archetype_generation to the number of
\* archetypes, and records each matching table (dense query) or archetype
\* (otherwise) in matched_storage_ids once, also when archetypes share a table.
C8_UpdateArchetypesIncremental ==
    qs.built =>
        /\ qs.examined = [i \in 1..qs.archetype_generation |-> i - 1]
        /\ last.op \in {"query_new", "update_archetypes", "iter"} =>
              /\ qs.archetype_generation = Len(archetypes.archetypes)
              /\ last.generation = qs.archetype_generation
              /\ SubSeq(qs.examined, last.before + 1, Len(qs.examined))
                     = [i \in 1..(last.generation - last.before) |->
                           last.before + i - 1]
        /\ Range(qs.matched_storage_ids) =
              IF IS_DENSE(qs.D)
              THEN {ArchetypeOf(a).table_id : a \in MatchingExamined}
              ELSE MatchingExamined
        /\ \A i, j \in 1..Len(qs.matched_storage_ids) :
              i # j => qs.matched_storage_ids[i] # qs.matched_storage_ids[j]

\* C8 witness: an update that found archetypes created after the query was
\* built, two matched archetypes sharing one table
C8_Witness ==
    /\ qs.built
    /\ last.op \in {"update_archetypes", "iter"}
    /\ last.before >= 1
    /\ last.before < last.generation
    /\ \E a, b \in qs.matched_archetypes :
          a # b /\ ArchetypeOf(a).table_id = ArchetypeOf(b).table_id

-----------------------------------------------------------------------------
(* The archetype graph driven directly: Bundles::init_info and               *)
(* BundleInfo::add_bundle_to_archetype from any archetype reached so far     *)

\* Bundles::init_info::<T>
GraphInitInfo(T) ==
    /\ panicked = "none"
    /\ T \notin DOMAIN bundles.bundle_ids
    /\ Len(bundles.bundle_infos) < MaxBundles
    /\ \E r \in {InitInfo(bundles, components, storages, T)} :
           /\ bundles' = r.bundles
           /\ components' = r.components
           /\ storages' = r.storages
           /\ panicked' = IF r.panic THEN "Bundle has duplicate components"
                          ELSE panicked
           /\ last' = [op |-> "init_info", T |-> T, id |-> r.id]
    /\ UNCHANGED <<entities, threads, archetypes, change_tick, qs, vended,
                   reserved, dead, reach, given>>

RECURSIVE SumEdges(_)
SumEdges(archetype_seq) ==
    IF archetype_seq = <<>>
    THEN 0
    ELSE Cardinality(DOMAIN Head(archetype_seq).edges)
             + SumEdges(Tail(archetype_seq))

\* the number of add-bundle edges cached in the archetype graph
EdgeCount == SumEdges(archetypes.archetypes)

\* the component sets known to lead to the archetype with the given id
ReachedSets(archetype_id) == {p.set : p \in {q \in reach : q.id = archetype_id}}

\* bundle_info.add_bundle_to_archetype(archetypes, storages, components,
\* archetype_id)
GraphAddBundle(archetype_id, bundle_id) ==
    /\ panicked = "none"
    /\ \/ bundle_id \in DOMAIN archetypes.archetypes[archetype_id + 1].edges
       \/ EdgeCount < MaxEdges
    /\ \E bundle_info \in {bundles.bundle_infos[bundle_id + 1]} :
       \E r \in {AddBundleToArchetype(bundle_info, archetypes, storages,
                                      components, archetype_id)} :
           /\ archetypes' = r.archetypes
           /\ storages' = r.storages
           /\ reach' = reach \cup
                 {[set |-> set \cup Range(bundle_info.component_ids),
                   id |-> r.id,
                   table_id |-> r.archetypes.archetypes[r.id + 1].table_id] :
                      set \in ReachedSets(archetype_id)}
           /\ last' = [op |-> "add_bundle_to_archetype", from |-> archetype_id,
                       bundle |-> bundle_id, to |-> r.id,
                       cached |-> bundle_id \in DOMAIN
                           archetypes.archetypes[archetype_id + 1].edges]
    /\ UNCHANGED <<entities, threads, components, bundles, change_tick, qs,
                   panicked, vended, reserved, dead, given>>

NextGraph ==
    \/ \E T \in BundleTypes : GraphInitInfo(T)
    \/ \E archetype_id \in 0..(Len(archetypes.archetypes) - 1),
          bundle_id \in 0..(Len(bundles.bundle_infos) - 1) :
          GraphAddBundle(archetype_id, bundle_id)

SpecGraph == Init /\ [][NextGraph]_vars

\* C9: an archetype is determined by its component set alone: add_bundle steps
\* from the empty archetype that reach the same set of component ids, in any
\* order and grouping, return the same archetype id and the same table id.
C9_ArchetypeDeterminedBySet ==
    \A p, q \in reach :
        p.set = q.set => p.id = q.id /\ p.table_id = q.table_id

\* the ids of the components of an archetype whose storage class is Table
TableClassComponents(archetype) ==
    {c \in Range(ArchetypeComponents(archetype)) :
        StorageTypeOf(components, c) = "Table"}

\* C10: for every archetype table_components() yields exactly its components
\* of storage class Table, and its table is keyed by exactly that set; no
\* SparseSet-class component is in a table key, in the table part of an
\* archetype key or a table column.
C10_TableComponentsAreTableClass ==
    /\ \A a \in 1..Len(archetypes.archetypes) :
          LET archetype == archetypes.archetypes[a]
          IN  /\ Range(table_components(archetype))
                     = TableClassComponents(archetype)
              /\ \A key \in DOMAIN storages.tables.table_ids :
                    storages.tables.table_ids[key] = archetype.table_id
                        => Range(key) = TableClassComponents(archetype)
    /\ \A key \in DOMAIN storages.tables.table_ids :
          \A c \in Range(key) : StorageTypeOf(components, c) = "Table"
    /\ \A key \in DOMAIN archetypes.by_components :
          \A c \in Range(key.table_components) :
              StorageTypeOf(components, c) = "Table"
    /\ \A t \in 1..Len(storages.tables.tables) :
          \A c \in DOMAIN storages.tables.tables[t].columns :
              StorageTypeOf(components, c) = "Table"

-----------------------------------------------------------------------------
(* A world whose archetypes field is what Archetypes::new() returns: the     *)
(* call that would insert the archetype without components is commented    *)
(* out in the source, so the Vec of archetypes starts empty                  *)

InitConstructed ==
    /\ entities = EntitiesNew
    /\ components = ComponentsDefault
    /\ storages = [tables |-> TablesNew, sparse_sets |-> EmptyMap]
    /\ archetypes = ArchetypesNew
    /\ bundles = BundlesDefault
    /\ change_tick = 1
    /\ threads = [t \in Threads |-> Idle]
    /\ qs = NoQuery
    /\ panicked = "none"
    /\ vended = <<>>
    /\ reserved = <<>>
    /\ dead = EmptyMap
    /\ reach = {}
    /\ given = EmptyMap
    /\ last = [op |-> "new"]

\* Archetypes::empty_mut: get_unchecked_mut(ArchetypeId::EMPTY.index()); on a
\* Vec without element 0 the behaviour is undefined: the build may abort in
\* the call, or hand out a dangling reference that goes unnoticed for as long
\* as nothing is written through it
EmptyMutOutcomes(archs) ==
    IF Len(archs.archetypes) > ArchetypeIdEMPTY
    THEN {"archetype"}
    ELSE {"abort", "dangling"}

\* World::flush_entities in a world without archetype 0: the init closure
\* writes through the reference of empty_mut once per reserved entity
ConstructedFlushEntities ==
    /\ panicked = "none"
    /\ AllIdle
    /\ \E outcome \in EmptyMutOutcomes(archetypes) :
           /\ outcome # "archetype"
           /\ panicked' = IF outcome = "abort"
                          THEN "empty_mut: no archetype 0"
                          ELSE IF NeedsFlush(entities)
                               THEN "write through a dangling reference"
                               ELSE panicked
           /\ last' = [op |-> "flush_entities", outcome |-> outcome]
    /\ UNCHANGED <<entities, threads, components, storages, archetypes, bundles,
                   change_tick, qs, vended, reserved, dead, reach, given>>

\* World::spawn::<T> in a world without archetype 0 and without reservations,
\* when flush_entities went unnoticed: the entity is allocated, the bundle is
\* registered, and add_bundle_to_archetype indexes archetypes[EMPTY], which
\* panics (Index for Archetypes is a checked Vec index)
ConstructedSpawn(T) ==
    /\ panicked = "none"
    /\ AllIdle
    /\ ~NeedsFlush(entities)
    /\ "dangling" \in EmptyMutOutcomes(archetypes)
    /\ \E al \in {EntitiesAlloc(entities)} :
       \E ii \in {InitInfo(bundles, components, storages, T)} :
           /\ entities' = al.ents
           /\ bundles' = ii.bundles
           /\ components' = ii.components
           /\ storages' = ii.storages
           /\ panicked' = IF ii.panic THEN "Bundle has duplicate components"
                          ELSE "index out of bounds: archetypes[0]"
           /\ last' = [op |-> "spawn", entity |-> al.entity, T |-> T]
    /\ UNCHANGED <<threads, archetypes, change_tick, qs, vended, reserved, dead,
                   reach, given>>

NextConstructed ==
    \/ \E t \in Threads : ReserveFetchSub(t)
    \/ \E t \in Threads : ReserveReturn(t)
    \/ \E T \in BundleTypes : GraphInitInfo(T)
    \/ ConstructedFlushEntities
    \/ \E T \in BundleTypes : ConstructedSpawn(T)

SpecConstructed == InitConstructed /\ [][NextConstructed]_vars

\* C11: archetype id 0 exists in every state of a world, from construction on,
\* and has no components, so flush_entities and spawn never refer to a missing
\* archetype.
C11_EmptyArchetypeAlwaysExists ==
    /\ Len(archetypes.archetypes) > ArchetypeIdEMPTY
    /\ ArchetypeComponents(archetypes.archetypes[ArchetypeIdEMPTY + 1]) = <<>>
    /\ last.op \in {"flush_entities", "spawn"} =>
           panicked \in {"none", "Bundle has duplicate components"}

-----------------------------------------------------------------------------
(* Effects of one World::spawn on its destination, checked under SpecWorld *)

\* Archetype::len of the archetype with the given id, 0 while it does not exist
ArchetypeLen(archs, id) ==
    IF id < Len(archs.archetypes)
    THEN Len(archs.archetypes[id + 1].entities)
    ELSE 0

\* Table::entity_count of the table with the given id, 0 while it does not exist
TableLen(tables, id) ==
    IF id < Len(tables.tables) THEN Len(tables.tables[id + 1].entities) ELSE 0

\* ComponentSparseSet::len of the set of component T, 0 while it does not exist
SparseLen(comps, sparse_sets, T) ==
    IF T \in DOMAIN comps.indices /\ comps.indices[T] \in DOMAIN sparse_sets
    THEN Len(sparse_sets[comps.indices[T]].entities)
    ELSE 0

\* the step is a World::spawn that returned
SpawnReturned == last'.op = "spawn" /\ panicked' = "none"

\* the location the spawned entity was given
SpawnedLocation == entities'.meta[last'.entity.index + 1].location

\* what one returned spawn does to the destination, the table growing by
\* table_growth rows
SpawnGrows(table_growth) ==
    /\ ArchetypeLen(archetypes', SpawnedLocation.archetype_id)
           = ArchetypeLen(archetypes, SpawnedLocation.archetype_id) + 1
    /\ TableLen(storages'.tables, SpawnedLocation.table_id)
           = TableLen(storages.tables, SpawnedLocation.table_id) + table_growth
    /\ \A i \in 1..Len(last'.T) :
           STORAGE_TYPE(last'.T[i]) = "SparseSet" =>
               SparseLen(components', storages'.sparse_sets, last'.T[i])
                   = SparseLen(components, storages.sparse_sets, last'.T[i]) + 1
    /\ last'.entity \notin Range(vended) \cup Range(reserved)

FlushedRows(table_id) ==
    IF table_id = archetypes.archetypes[ArchetypeIdEMPTY + 1].table_id
    THEN Len(reserved)
    ELSE 0

-----------------------------------------------------------------------------
(* Duplicate components in a bundle *)

\* the step is a World::spawn that panicked in BundleInfo::new
SpawnPanicked ==
    last'.op = "spawn" /\ panicked' = "Bundle has duplicate components"

\* C13: a World::spawn of a bundle naming a component twice fails and leaves
\* the world as it was: entities.len(), meta, the free list, the archetypes,
\* the tables and the registered bundles are unchanged, and no entity is
\* allocated without a location.
C13_DuplicateSpawnLeavesWorld ==
    [][SpawnPanicked =>
          /\ entities'.len = entities.len
          /\ entities'.meta = entities.meta
          /\ entities'.pending = entities.pending
          /\ entities'.free_cursor = entities.free_cursor
          /\ archetypes' = archetypes
          /\ storages'.tables = storages.tables
          /\ bundles' = bundles
          /\ \A i \in 1..Len(entities'.meta) :
                 (i - 1) \notin Range(entities'.pending) =>
                     entities'.meta[i].location # LocationINVALID]_vars

\* the component ids Bundle::component_ids of T passes on, in tuple order
ComponentIdsOf(comps, T) == [i \in 1..Len(T) |-> comps.indices[T[i]]]

\* some id is at two places of the list
NamesTwice(ids) == \E i, j \in 1..Len(ids) : i # j /\ ids[i] = ids[j]

\* the step is a Bundles::init_info of a type not registered before
InitInfoStep == last'.op = "init_info"

\* C14: building the BundleInfo of a bundle type panics if and only if its
\* ordered component-id list names some id more than once; on failure no
\* bundle id is assigned and no BundleInfo is stored; on success the stored
\* component_ids are the list, without duplicate.
C14_BundleInfoFailsIffDuplicate ==
    [][InitInfoStep =>
          LET T == last'.T
              ids == ComponentIdsOf(components', T)
          IN  /\ (panicked' # "none") <=> NamesTwice(ids)
              /\ panicked' # "none" =>
                     /\ bundles' = bundles
                     /\ T \notin DOMAIN bundles'.bundle_ids
              /\ panicked' = "none" =>
                     /\ T \in DOMAIN bundles'.bundle_ids
                     /\ bundles'.bundle_ids[T] = Len(bundles.bundle_infos)
                     /\ Len(bundles'.bundle_infos) = Len(bundles.bundle_infos) + 1
                     /\ bundles'.bundle_infos[bundles'.bundle_ids[T] + 1]
                            .component_ids = ids
              /\ \A b \in 1..Len(bundles'.bundle_infos) :
                     ~NamesTwice(bundles'.bundle_infos[b].component_ids)]_vars

\* init_info of (A, A) panicked after another bundle naming A was registered
C14_Witness ==
    /\ last.op = "init_info"
    /\ last.T = <<"A", "A">>
    /\ panicked = "Bundle has duplicate components"
    /\ <<"A", "A">> \notin DOMAIN bundles.bundle_ids
    /\ \E T \in DOMAIN bundles.bundle_ids : Len(T) = 2

-----------------------------------------------------------------------------
(* Reuse of an index and the results of free, checked under SpecEntities *)

\* the generation after g: one more, and 1 after the largest
NextGeneration(g) == IF g = GenMax THEN 1 ELSE g + 1

\* the step is an Entities::alloc that returned
AllocReturned == last'.op = "alloc" /\ panicked' = "none"

\* the handles freed last of their index
LastFreed == {e \in DOMAIN dead : dead[e] = 0}

\* C15: when free(e1) succeeded and the next allocation is an alloc(), with no
\* free in between, the entity e2 it returns has e1's index and the generation
\* after e1's (1 after the largest, never 0); get(e1) is then None, and once
\* e2's location is set get(e2) returns it.
C15_GenerationReuse ==
    [][/\ AllocReturned /\ last.op = "free" /\ last.ok =>
              last'.entity.index = last.entity.index
       /\ AllocReturned =>
              /\ last'.entity.generation \in 1..GenMax
              /\ \A e1 \in LastFreed :
                     e1.index = last'.entity.index =>
                         /\ last'.entity.generation
                                = NextGeneration(e1.generation)
                         /\ EntitiesGet(entities', e1) = None
       /\ last'.op = "set" /\ last.op = "alloc" /\ last.entity = last'.entity =>
              /\ EntitiesGet(entities', last'.entity)
                     \in {Some(location) : location \in ValidLocations}
              /\ \A e1 \in LastFreed :
                     e1.index = last'.entity.index =>
                         EntitiesGet(entities', e1) = None]_vars

\* the entity of the largest generation was freed, the alloc after it returned
\* its index with generation 1, and that entity has its location
C15_Witness ==
    /\ last.op = "set"
    /\ last.entity.generation = 1
    /\ Entity(last.entity.index, GenMax) \in LastFreed
    /\ EntitiesGet(entities, last.entity) # None

\* the step is an Entities::free that returned
FreeReturned == last'.op = "free" /\ panicked' = "none"

\* the handles that are dead: freed, and not handed out again since (after
\* the generations of an index have wrapped, alloc hands out a freed handle
\* anew, and it denotes the live entity)
DeadHandles == DOMAIN dead \ Range(vended)

\* C16: free(e) returns Err(NoSuchEntity) when e's index is out of range, its
\* generation differs from the stored one, or e is already dead, and then
\* changes nothing of meta, pending, free_cursor and len; when it succeeds it
\* returns the location e had and resets the stored location to INVALID.
C16_FreeErrLeavesAllocator ==
    [][FreeReturned =>
          LET e == last'.entity
          IN  /\ \/ e.index >= Len(entities.meta)
                 \/ entities.meta[e.index + 1].generation # e.generation
                 \/ e \in DeadHandles
                 => ~last'.ok
              /\ ~last'.ok => entities' = entities
              /\ last'.ok =>
                     /\ last'.loc = entities.meta[e.index + 1].location
                     /\ last'.loc # LocationINVALID
                     /\ entities'.meta[e.index + 1].location = LocationINVALID
                     /\ entities'.len = entities.len - 1]_vars

\* free of a handle freed before, whose index is in use again, returned Err
C16_Witness ==
    /\ last.op = "free"
    /\ panicked = "none"
    /\ ~last.ok
    /\ last.entity \in DeadHandles
    /\ \E e \in Range(Held) : e.index = last.entity.index
    /\ entities.len >= 1

-----------------------------------------------------------------------------
(* ComponentSparseSet driven directly: storage/sparse_set.rs, with the        *)
(* Column and BlobVec operations it calls, storage/table.rs and              *)
(* storage/blob_vec.rs.  Values that are dropped are reported by the         *)
(* operators that drop them.                                                 *)

\* the inserts of one run
MaxInserts == 4

\* Vec::swap_remove(i): the last element takes the place of the removed one
SwapRemove(s, i) ==
    [k \in 1..(Len(s) - 1) |-> IF k = i + 1 THEN s[Len(s)] ELSE s[k]]

\* BlobVec::replace_unchecked drops the value it overwrites
ColumnReplaceDrops(column, row) == <<column.data[row + 1]>>

ColumnSwapRemovePop(column, row) ==
    [column |-> [data |-> SubSeq(column.data, 1, Len(column.data) - 1),
                 added_ticks |-> SubSeq(column.added_ticks, 1,
                                        Len(column.added_ticks) - 1),
                 changed_ticks |-> SubSeq(column.changed_ticks, 1,
                                          Len(column.changed_ticks) - 1)],
     dropped |-> <<column.data[Len(column.data)]>>]

\* Column::swap_remove_unchecked: the row is swap-removed from the data and
\* both tick arrays; BlobVec::swap_remove_and_drop_unchecked drops its value
ColumnSwapRemoveUnchecked(column, row) ==
    [column |-> [data |-> SwapRemove(column.data, row),
                 added_ticks |-> SwapRemove(column.added_ticks, row),
                 changed_ticks |-> SwapRemove(column.changed_ticks, row)],
     dropped |-> <<column.data[row + 1]>>]

\* Column::swap_remove_and_forget_unchecked: the value is handed to the caller
ColumnSwapRemoveAndForgetUnchecked(column, row) ==
    [column |-> [data |-> SwapRemove(column.data, row),
                 added_ticks |-> SwapRemove(column.added_ticks, row),
                 changed_ticks |-> SwapRemove(column.changed_ticks, row)],
     value |-> column.data[row + 1]]

\* SparseArray::remove
SparseArrayRemove(sparse, index) ==
    [x \in DOMAIN sparse \ {index} |-> sparse[x]]

SwappedSparseStale(sparse, is_last, ents, dense_index) == sparse

\* the end of remove and remove_and_forget: unless the removed row was the
\* last, sparse of the entity now at dense_index is set to dense_index
SwappedSparse(sparse, is_last, ents, dense_index) ==
    IF is_last
    THEN sparse
    ELSE [sparse EXCEPT ![ents[dense_index + 1].index] = dense_index]

\* the debug assertion of insert, get, remove and remove_and_forget: the entity
\* stored at the dense row of entity.index is entity
EntityAssertFails(set, entity) ==
    /\ entity.index \in DOMAIN set.sparse
    /\ set.entities[set.sparse[entity.index] + 1] # entity

\* ComponentSparseSet::remove, given the dense row of the entity
RemoveAt(set, entity, dense_index, r) ==
    [result |-> TRUE, dropped |-> r.dropped,
     set |-> [dense |-> r.column,
              entities |-> SwapRemove(set.entities, dense_index),
              sparse |-> SwappedSparse(
                             SparseArrayRemove(set.sparse, entity.index),
                             dense_index = Len(set.dense.data) - 1,
                             SwapRemove(set.entities, dense_index),
                             dense_index)]]

\* ComponentSparseSet::remove
ComponentSparseSetRemove(set, entity) ==
    IF entity.index \in DOMAIN set.sparse
    THEN RemoveAt(set, entity, set.sparse[entity.index],
             ColumnSwapRemoveUnchecked(set.dense, set.sparse[entity.index]))
    ELSE [result |-> FALSE, dropped |-> <<>>, set |-> set]

\* ComponentSparseSet::remove_and_forget, given the dense row of the entity
RemoveAndForgetAt(set, entity, dense_index, r) ==
    [result |-> Some(r.value), dropped |-> <<>>,
     set |-> [dense |-> r.column,
              entities |-> SwapRemove(set.entities, dense_index),
              sparse |-> SwappedSparse(
                             SparseArrayRemove(set.sparse, entity.index),
                             dense_index = Len(set.dense.data) - 1,
                             SwapRemove(set.entities, dense_index),
                             dense_index)]]

\* ComponentSparseSet::remove_and_forget
ComponentSparseSetRemoveAndForget(set, entity) ==
    IF entity.index \in DOMAIN set.sparse
    THEN RemoveAndForgetAt(set, entity, set.sparse[entity.index],
             ColumnSwapRemoveAndForgetUnchecked(set.dense,
                                                set.sparse[entity.index]))
    ELSE [result |-> None, dropped |-> <<>>, set |-> set]

\* ComponentSparseSet::get
ComponentSparseSetGet(set, entity) ==
    IF entity.index \in DOMAIN set.sparse
    THEN Some(set.dense.data[set.sparse[entity.index] + 1])
    ELSE None

\* ComponentSparseSet::len
ComponentSparseSetLen(set) == Len(set.dense.data)

\* a world in which the sparse component S is registered, so that
\* SparseSets::get_or_insert has created its ComponentSparseSet
InitSparseSet ==
    /\ entities = EntitiesNew
    /\ \E r \in {InitComponent(ComponentsDefault,
                     [tables |-> TablesNew, sparse_sets |-> EmptyMap], "S")} :
           /\ components = r.components
           /\ storages = r.storages
    /\ archetypes = ArchetypesNew
    /\ bundles = BundlesDefault
    /\ change_tick = 1
    /\ threads = [t \in Threads |-> Idle]
    /\ qs = NoQuery
    /\ panicked = "none"
    /\ vended = <<>>
    /\ reserved = <<>>
    /\ dead = EmptyMap
    /\ reach = {}
    /\ given = EmptyMap
    /\ last = [op |-> "new"]

\* the ComponentSparseSet of S
TheSet == storages.sparse_sets[components.indices["S"]]

\* the debug assertion on the stored entity fails in the operation op, which
\* leaves the sparse array as sparse_at_panic: insert looks the row up, remove
\* and remove_and_forget have taken it out of the sparse array by then
SetAssertPanics(op, entity, sparse_at_panic) ==
    /\ EntityAssertFails(TheSet, entity)
    /\ panicked' = "assertion failed: entity == entities[dense_index]"
    /\ last' = [op |-> op, entity |-> entity]
    /\ storages' = [storages EXCEPT
           !.sparse_sets[components.indices["S"]].sparse = sparse_at_panic]
    /\ UNCHANGED change_tick

\* ComponentSparseSet::insert(entity, value, change_tick), the value and the
\* tick being those of the world's current change tick
SetInsert(entity) ==
    /\ panicked = "none"
    /\ change_tick <= MaxInserts
    /\ \/ SetAssertPanics("insert", entity, TheSet.sparse)
       \/ /\ ~EntityAssertFails(TheSet, entity)
          /\ storages' = [storages EXCEPT
                 !.sparse_sets[components.indices["S"]] =
                     ComponentSparseSetInsert(@, entity,
                         Value(change_tick, "S"), change_tick)]
          /\ change_tick' = change_tick + 1
          /\ panicked' = panicked
          /\ last' = [op |-> "insert", entity |-> entity,
                      value |-> Value(change_tick, "S"), tick |-> change_tick,
                      dropped |-> IF entity.index \in DOMAIN TheSet.sparse
                                  THEN ColumnReplaceDrops(TheSet.dense,
                                           TheSet.sparse[entity.index])
                                  ELSE <<>>]
    /\ UNCHANGED <<entities, threads, components, archetypes, bundles, qs,
                   vended, reserved, dead, reach, given>>

\* ComponentSparseSet::remove(entity)
SetRemove(entity) ==
    /\ panicked = "none"
    /\ \/ SetAssertPanics("remove", entity,
                          SparseArrayRemove(TheSet.sparse, entity.index))
       \/ /\ ~EntityAssertFails(TheSet, entity)
          /\ \E r \in {ComponentSparseSetRemove(TheSet, entity)} :
                 /\ storages' = [storages EXCEPT
                        !.sparse_sets[components.indices["S"]] = r.set]
                 /\ last' = [op |-> "remove", entity |-> entity,
                             result |-> r.result, dropped |-> r.dropped]
          /\ UNCHANGED <<change_tick, panicked>>
    /\ UNCHANGED <<entities, threads, components, archetypes, bundles, qs,
                   vended, reserved, dead, reach, given>>

\* ComponentSparseSet::remove_and_forget(entity)
SetRemoveAndForget(entity) ==
    /\ panicked = "none"
    /\ \/ SetAssertPanics("remove_and_forget", entity,
                          SparseArrayRemove(TheSet.sparse, entity.index))
       \/ /\ ~EntityAssertFails(TheSet, entity)
          /\ \E r \in {ComponentSparseSetRemoveAndForget(TheSet, entity)} :
                 /\ storages' = [storages EXCEPT
                        !.sparse_sets[components.indices["S"]] = r.set]
                 /\ last' = [op |-> "remove_and_forget", entity |-> entity,
                             result |-> r.result, dropped |-> r.dropped]
          /\ UNCHANGED <<change_tick, panicked>>
    /\ UNCHANGED <<entities, threads, components, archetypes, bundles, qs,
                   vended, reserved, dead, reach, given>>

NextSparseSet ==
    \/ \E entity \in Handles : SetInsert(entity)
    \/ \E entity \in Handles : SetRemove(entity)
    \/ \E entity \in Handles : SetRemoveAndForget(entity)

SpecSparseSet == InitSparseSet /\ [][NextSparseSet]_vars

-----------------------------------------------------------------------------
(* World::spawn and outstanding reservations, checked under SpecWorld *)

\* C17: alloc runs only when no reservation is outstanding: World::spawn calls
\* flush_entities first, so whatever reserve_entity calls preceded the spawn,
\* needs_flush() is false when alloc is reached (verify_flushed passes), every
\* reserved entity has been flushed, and the entity alloc vends is none of the
\* reserved ones.
C17_SpawnFlushesBeforeAlloc ==
    [][last'.op = "spawn" =>
          /\ ~NeedsFlush(WorldFlushEntities(TheWorld).entities)
          /\ last'.flushed = reserved
          /\ last'.entity \notin Range(reserved)
          /\ \A e \in Range(reserved) :
                 EntitiesGet(entities', e) # None
          /\ ~NeedsFlush(entities')]_vars

\* a spawn returned that found two reservations outstanding
C17_Witness ==
    /\ last.op = "spawn"
    /\ panicked = "none"
    /\ Len(last.flushed) = MaxReserved
    /\ last.entity \notin Range(last.flushed)
    /\ EntitiesGet(entities, last.entity) # None

-----------------------------------------------------------------------------
(* Properties of ComponentSparseSet, checked under SpecSparseSet *)

\* the value and the ticks stored for the entity at index x
Contents(set, x) ==
    [value |-> set.dense.data[set.sparse[x] + 1],
     added |-> set.dense.added_ticks[set.sparse[x] + 1],
     changed |-> set.dense.changed_ticks[set.sparse[x] + 1]]

\* the entities other than entity keep their values and ticks from set to
\* after, and each is retrievable
OthersKept(set, after, entity) ==
    \A o \in Range(set.entities) \ {entity} :
        /\ o.index \in DOMAIN after.sparse
        /\ after.entities[after.sparse[o.index] + 1] = o
        /\ Contents(after, o.index) = Contents(set, o.index)
        /\ ComponentSparseSetGet(after, o) = ComponentSparseSetGet(set, o)

\* C18: after any sequence of insert, remove and remove_and_forget calls that
\* returned, for every dense row i < len sparse[entities[i].index] = i, and
\* sparse[x] holds a row r only if r < len and entities[r].index = x; the dense
\* column, the entity vector and the tick arrays have the same length and no
\* entity index is in two dense rows.
C18_SparseDenseConsistent ==
    LET set == TheSet
        len == ComponentSparseSetLen(set)
    IN  panicked = "none" =>
        /\ Len(set.entities) = len
        /\ Len(set.dense.added_ticks) = len
        /\ Len(set.dense.changed_ticks) = len
        /\ \A i \in 0..(len - 1) :
               /\ set.entities[i + 1].index \in DOMAIN set.sparse
               /\ set.sparse[set.entities[i + 1].index] = i
        /\ \A x \in DOMAIN set.sparse :
               /\ set.sparse[x] \in 0..(len - 1)
               /\ set.entities[set.sparse[x] + 1].index = x
        /\ \A i, j \in 0..(len - 1) :
               set.entities[i + 1].index = set.entities[j + 1].index => i = j

\* remove_and_forget took a row that was not the last of three, and the last
\* row was moved into its place
C18_Witness ==
    /\ last.op = "remove_and_forget"
    /\ panicked = "none"
    /\ last.result # None
    /\ ComponentSparseSetLen(TheSet) = 2
    /\ \E x \in DOMAIN TheSet.sparse :
           TheSet.dense.data[TheSet.sparse[x] + 1].spawn = 3
               /\ TheSet.sparse[x] = 0

\* C19: remove(e) returns true iff e had a value; it then drops exactly that
\* value, and every other entity keeps its value and ticks and stays
\* retrievable; if e had no value it returns false and the set is unchanged.
C19_RemoveKeepsOthers ==
    [][last'.op = "remove" /\ panicked' = "none" =>
          LET e == last'.entity
              set == TheSet
              after == TheSet'
          IN  /\ last'.result <=> ComponentSparseSetGet(set, e) # None
              /\ last'.result =>
                     /\ last'.dropped = <<ComponentSparseSetGet(set, e).val>>
                     /\ ComponentSparseSetGet(after, e) = None
                     /\ ComponentSparseSetLen(after)
                            = ComponentSparseSetLen(set) - 1
                     /\ Range(after.entities) = Range(set.entities) \ {e}
                     /\ OthersKept(set, after, e)
              /\ ~last'.result =>
                     /\ after = set
                     /\ last'.dropped = <<>>]_vars

\* remove took the first of three rows: the third value is now in row 0
C19_Witness ==
    /\ last.op = "remove"
    /\ panicked = "none"
    /\ last.result
    /\ ComponentSparseSetLen(TheSet) = 2
    /\ TheSet.dense.data[1].spawn > TheSet.dense.data[2].spawn
    /\ last.dropped # <<>>

\* C20: insert(e, v, t) on an entity that has a value overwrites it with v,
\* dropping the old value once, keeps the length and the added tick and sets
\* the changed tick to t; otherwise it appends (e, v), the length grows by one
\* and both ticks are t.  In both cases get(e) is then v and no other entity's
\* value changes.
C20_InsertReplacesOrAppends ==
    [][last'.op = "insert" /\ panicked' = "none" =>
          LET e == last'.entity
              v == last'.value
              t == last'.tick
              set == TheSet
              after == TheSet'
          IN  /\ ComponentSparseSetGet(set, e) # None =>
                     /\ last'.dropped = <<ComponentSparseSetGet(set, e).val>>
                     /\ ComponentSparseSetLen(after) = ComponentSparseSetLen(set)
                     /\ Contents(after, e.index).changed = t
                     /\ Contents(after, e.index).added
                            = Contents(set, e.index).added
              /\ ComponentSparseSetGet(set, e) = None =>
                     /\ last'.dropped = <<>>
                     /\ ComponentSparseSetLen(after)
                            = ComponentSparseSetLen(set) + 1
                     /\ after.entities = Append(set.entities, e)
                     /\ Contents(after, e.index).changed = t
                     /\ Contents(after, e.index).added = t
              /\ ComponentSparseSetGet(after, e) = Some(v)
              /\ OthersKept(set, after, e)]_vars

\* insert overwrote the value of the first of two entities at a later tick
C20_Witness ==
    /\ last.op = "insert"
    /\ panicked = "none"
    /\ last.dropped # <<>>
    /\ ComponentSparseSetLen(TheSet) = 2
    /\ TheSet.entities[1] = last.entity
    /\ TheSet.dense.added_ticks[1] < TheSet.dense.changed_ticks[1]
    /\ TheSet.dense.data[1] = last.value

-----------------------------------------------------------------------------
(* BlobVec: storage/blob_vec.rs.  A BlobVec is the record of capacity, len,  *)
(* the slots of its allocation (data, one per unit of capacity) and drop,    *)
(* TRUE when the item type has a drop function.  The operators that call the *)
(* drop function report the values they call it with.                        *)

Max(a, b) == IF a > b THEN a ELSE b

\* BlobVec::new for a type of non-zero size
BlobVecNew(drop, capacity) ==
    [capacity |-> capacity, len |-> 0, drop |-> drop,
     data |-> [i \in 1..capacity |-> UNINIT]]

\* BlobVec::grow_exact
GrowExact(blob, increment) ==
    [blob EXCEPT !.capacity = @ + increment,
                 !.data = @ \o [i \in 1..increment |-> UNINIT]]

\* BlobVec::reserve_exact
BlobVecReserveExact(blob, additional) ==
    IF blob.capacity - blob.len < additional
    THEN GrowExact(blob, additional - (blob.capacity - blob.len))
    ELSE blob

BlobVecReserveDoubles(blob, additional) ==
    IF blob.capacity - blob.len < additional
    THEN GrowExact(blob, 2 * Max(blob.capacity,
                                 additional - (blob.capacity - blob.len))
                             - blob.capacity)
    ELSE blob

\* BlobVec::reserve
BlobVecReserve(blob, additional) ==
    IF blob.capacity - blob.len < additional
    THEN GrowExact(blob, Max(blob.capacity,
                             additional - (blob.capacity - blob.len)))
    ELSE blob

\* BlobVec::initialize_unchecked: the slot is overwritten, nothing is dropped
BlobVecInitializeUnchecked(blob, index, value) ==
    [blob EXCEPT !.data[index + 1] = value]

\* BlobVec::set_len
BlobVecSetLen(blob, len) == [blob EXCEPT !.len = len]

\* BlobVec::push
BlobVecPush(blob, value) ==
    BlobVecInitializeUnchecked(
        BlobVecSetLen(BlobVecReserve(blob, 1), blob.len + 1), blob.len, value)

OnUnwindForgotten(value) == <<>>

\* the OnDrop guard of replace_unchecked: run on unwind, it drops the incoming
\* value
OnUnwind(value) == <<value>>

\* BlobVec::replace_unchecked, drop_panics telling whether the drop of the old
\* value panics: len is 0 while the old value is dropped and stays 0 when that
\* drop panics, the incoming value then being dropped by the guard
BlobVecReplaceUnchecked(blob, index, value, drop_panics) ==
    IF ~blob.drop
    THEN [panic |-> FALSE, dropped |-> <<>>,
          blob |-> [blob EXCEPT !.data[index + 1] = value]]
    ELSE IF drop_panics
         THEN [panic |-> TRUE,
               dropped |-> <<blob.data[index + 1]>> \o OnUnwind(value),
               blob |-> [blob EXCEPT !.len = 0]]
         ELSE [panic |-> FALSE, dropped |-> <<blob.data[index + 1]>>,
               blob |-> [blob EXCEPT !.data[index + 1] = value]]

\* BlobVec::swap_remove_and_forget_unchecked: the slots index and len - 1 are
\* swapped, len shrinks by one and the removed value is handed to the caller
BlobVecSwapRemoveAndForgetUnchecked(blob, index) ==
    [value |-> blob.data[index + 1],
     blob |-> [blob EXCEPT
                 !.len = @ - 1,
                 !.data = [i \in 1..blob.capacity |->
                              IF i = index + 1 THEN blob.data[blob.len]
                              ELSE IF i = blob.len THEN blob.data[index + 1]
                              ELSE blob.data[i]]]]

\* BlobVec::swap_remove_and_drop_unchecked, given the result of
\* swap_remove_and_forget_unchecked
SwapRemoveAndDrop(drop, r) ==
    [dropped |-> IF drop THEN <<r.value>> ELSE <<>>, blob |-> r.blob]

\* BlobVec::swap_remove_and_drop_unchecked
BlobVecSwapRemoveAndDropUnchecked(blob, index) ==
    SwapRemoveAndDrop(blob.drop, BlobVecSwapRemoveAndForgetUnchecked(blob, index))

BlobVecClearForgets(blob) == [dropped |-> <<>>, blob |-> [blob EXCEPT !.len = 0]]

\* BlobVec::clear: len is set to 0 and the former slots 0..len-1 are dropped
BlobVecClear(blob) ==
    [dropped |-> IF blob.drop THEN SubSeq(blob.data, 1, blob.len) ELSE <<>>,
     blob |-> [blob EXCEPT !.len = 0]]

\* Drop for BlobVec, given the result of clear: the allocation is freed
DropCleared(r) ==
    [dropped |-> r.dropped,
     blob |-> [r.blob EXCEPT !.capacity = 0, !.data = <<>>]]

\* Drop for BlobVec
BlobVecDrop(blob) == DropCleared(BlobVecClear(blob))

\* A BlobVec driven directly.  storages holds the BlobVec and whether it is
\* alive; change_tick numbers the values moved in; given records the values
\* moved in, dead how often the drop function was called with each value,
\* vended the values handed to the caller by swap_remove_and_forget_unchecked,
\* and reach the values the BlobVec forgot when replace_unchecked unwound.
InitBlobVec ==
    /\ entities = EntitiesNew
    /\ components = ComponentsDefault
    /\ \E drop \in BOOLEAN, capacity \in 0..1 :
           storages = [blob |-> BlobVecNew(drop, capacity), alive |-> TRUE]
    /\ archetypes = ArchetypesNew
    /\ bundles = BundlesDefault
    /\ change_tick = 1
    /\ threads = [t \in Threads |-> Idle]
    /\ qs = NoQuery
    /\ panicked = "none"
    /\ vended = <<>>
    /\ reserved = <<>>
    /\ dead = EmptyMap
    /\ reach = {}
    /\ given = EmptyMap
    /\ last = [op |-> "new"]

TheBlobVec == storages.blob

\* the value moved in next
NextItem == Value(change_tick, "A")

\* the calls of the drop function so far, after it was called with each
\* element of dropped
DeadAfterDrops(dropped) ==
    [v \in DOMAIN dead \cup Range(dropped) |->
        (IF v \in DOMAIN dead THEN dead[v] ELSE 0) + Count(dropped, v)]

\* the caller may use the BlobVec: it is alive and no call has panicked
BlobUsable == storages.alive /\ panicked = "none"

\* the step moves NextItem into the BlobVec, which becomes blob
MovesIn(blob) ==
    /\ storages' = [storages EXCEPT !.blob = blob]
    /\ given' = (NextItem :> TRUE) @@ given
    /\ change_tick' = change_tick + 1

\* BlobVec::push(value)
BlobPush ==
    /\ BlobUsable
    /\ change_tick <= MaxInserts
    /\ MovesIn(BlobVecPush(TheBlobVec, NextItem))
    /\ last' = [op |-> "push", value |-> NextItem,
                grown |-> TheBlobVec.capacity - TheBlobVec.len < 1]
    /\ UNCHANGED <<entities, threads, components, archetypes, bundles, qs, reserved, panicked, vended, dead, reach>>

\* BlobVec::reserve_exact(additional)
BlobReserveExact(additional) ==
    /\ BlobUsable
    /\ storages' = [storages EXCEPT
           !.blob = BlobVecReserveExact(TheBlobVec, additional)]
    /\ last' = [op |-> "reserve_exact", additional |-> additional]
    /\ UNCHANGED <<entities, threads, components, archetypes, bundles, qs, reserved, change_tick, panicked, vended, dead, reach, given>>

\* BlobVec::reserve(additional)
BlobReserve(additional) ==
    /\ BlobUsable
    /\ storages' = [storages EXCEPT
           !.blob = BlobVecReserve(TheBlobVec, additional)]
    /\ last' = [op |-> "reserve", additional |-> additional,
                grown |-> TheBlobVec.capacity - TheBlobVec.len < additional]
    /\ UNCHANGED <<entities, threads, components, archetypes, bundles, qs, reserved, change_tick, panicked, vended, dead, reach, given>>

\* set_len(len + 1) followed by initialize_unchecked(len, value), as
\* Table::allocate and Column::initialize do for a new row; the debug
\* assertion of set_len fails when there is no capacity left
BlobAllocate ==
    /\ BlobUsable
    /\ change_tick <= MaxInserts
    /\ IF TheBlobVec.len + 1 <= TheBlobVec.capacity
       THEN /\ MovesIn(BlobVecInitializeUnchecked(
                           BlobVecSetLen(TheBlobVec, TheBlobVec.len + 1),
                           TheBlobVec.len, NextItem))
            /\ last' = [op |-> "allocate", value |-> NextItem]
            /\ UNCHANGED panicked
       ELSE /\ panicked' = "assertion failed: len <= self.capacity()"
            /\ last' = [op |-> "set_len"]
            /\ UNCHANGED <<storages, given, change_tick>>
    /\ UNCHANGED <<entities, threads, components, archetypes, bundles, qs, reserved, vended, dead, reach>>

\* BlobVec::replace_unchecked(index, value); the drop of the old value may
\* panic
BlobReplace(index, drop_panics) ==
    /\ BlobUsable
    /\ change_tick <= MaxInserts
    /\ index < TheBlobVec.len
    /\ drop_panics => TheBlobVec.drop
    /\ \E r \in {BlobVecReplaceUnchecked(TheBlobVec, index, NextItem,
                                         drop_panics)} :
           /\ MovesIn(r.blob)
           /\ dead' = DeadAfterDrops(r.dropped)
           /\ panicked' = IF r.panic THEN "drop of the replaced value panicked"
                          ELSE panicked
           /\ reach' = IF r.panic
                       THEN {TheBlobVec.data[i] :
                                i \in (1..TheBlobVec.len) \ {index + 1}}
                       ELSE reach
           /\ last' = [op |-> "replace", value |-> NextItem,
                       old |-> TheBlobVec.data[index + 1],
                       dropped |-> r.dropped]
    /\ UNCHANGED <<entities, threads, components, archetypes, bundles, qs, reserved, vended>>

\* BlobVec::swap_remove_and_forget_unchecked(index)
BlobSwapRemoveAndForget(index) ==
    /\ BlobUsable
    /\ index < TheBlobVec.len
    /\ \E r \in {BlobVecSwapRemoveAndForgetUnchecked(TheBlobVec, index)} :
           /\ storages' = [storages EXCEPT !.blob = r.blob]
           /\ vended' = Append(vended, r.value)
           /\ last' = [op |-> "swap_remove_and_forget", value |-> r.value]
    /\ UNCHANGED <<entities, threads, components, archetypes, bundles, qs, reserved, change_tick, panicked, dead, reach, given>>

\* BlobVec::swap_remove_and_drop_unchecked(index)
BlobSwapRemoveAndDrop(index) ==
    /\ BlobUsable
    /\ index < TheBlobVec.len
    /\ \E r \in {BlobVecSwapRemoveAndDropUnchecked(TheBlobVec, index)} :
           /\ storages' = [storages EXCEPT !.blob = r.blob]
           /\ dead' = DeadAfterDrops(r.dropped)
           /\ last' = [op |-> "swap_remove_and_drop", dropped |-> r.dropped]
    /\ UNCHANGED <<entities, threads, components, archetypes, bundles, qs, reserved, change_tick, panicked, vended, reach, given>>

\* BlobVec::clear
BlobClear ==
    /\ BlobUsable
    /\ TheBlobVec.len > 0
    /\ \E r \in {BlobVecClear(TheBlobVec)} :
           /\ storages' = [storages EXCEPT !.blob = r.blob]
           /\ dead' = DeadAfterDrops(r.dropped)
           /\ last' = [op |-> "clear", dropped |-> r.dropped]
    /\ UNCHANGED <<entities, threads, components, archetypes, bundles, qs, reserved, change_tick, panicked, vended, reach, given>>

\* Drop for BlobVec, also while a panic unwinds
BlobDrop ==
    /\ storages.alive
    /\ \E r \in {BlobVecDrop(TheBlobVec)} :
           /\ storages' = [blob |-> r.blob, alive |-> FALSE]
           /\ dead' = DeadAfterDrops(r.dropped)
           /\ last' = [op |-> "drop", dropped |-> r.dropped]
    /\ UNCHANGED <<entities, threads, components, archetypes, bundles, qs, reserved, change_tick, panicked, vended, reach, given>>

NextBlobVec ==
    \/ BlobPush
    \/ \E additional \in 1..2 : BlobReserveExact(additional)
    \/ \E additional \in 1..2 : BlobReserve(additional)
    \/ BlobAllocate
    \/ \E index \in 0..(MaxInserts - 1), drop_panics \in BOOLEAN :
          BlobReplace(index, drop_panics)
    \/ \E index \in 0..(MaxInserts - 1) : BlobSwapRemoveAndForget(index)
    \/ \E index \in 0..(MaxInserts - 1) : BlobSwapRemoveAndDrop(index)
    \/ BlobClear
    \/ BlobDrop

SpecBlobVec == InitBlobVec /\ [][NextBlobVec]_vars

-----------------------------------------------------------------------------
(* Properties of BlobVec, checked under SpecBlobVec *)

\* the slots below len that hold the value v
SlotsOf(v) == {i \in 1..TheBlobVec.len : TheBlobVec.data[i] = v}

\* how often the drop function was called with v
Drops(v) == IF v \in DOMAIN dead THEN dead[v] ELSE 0

\* v is in one place: held in one slot, dropped once, or handed to the caller
Accounted(v) == Cardinality(SlotsOf(v)) + Drops(v) + Count(vended, v) = 1

\* C21: every value moved into a BlobVec by push, initialize_unchecked or
\* replace_unchecked is dropped exactly once, when it is replaced,
\* swap-removed-and-dropped, cleared or when the BlobVec is dropped, unless
\* swap_remove_and_forget_unchecked handed it out, and then the BlobVec never
\* drops it; no value is dropped twice and none is leaked.
C21_DroppedExactlyOnce ==
    panicked = "none" =>
        /\ DOMAIN dead \subseteq DOMAIN given
        /\ Range(vended) \subseteq DOMAIN given
        /\ IF TheBlobVec.drop
           THEN \A v \in DOMAIN given : Accounted(v)
           ELSE dead = EmptyMap
        /\ ~storages.alive =>
               /\ TheBlobVec.len = 0
               /\ TheBlobVec.drop =>
                      \A v \in DOMAIN given :
                          \/ (Drops(v) = 1 /\ v \notin Range(vended))
                          \/ (Drops(v) = 0 /\ Count(vended, v) = 1)

\* the BlobVec was dropped after every kind of removal: it dropped rows
\* itself, a value was replaced and one was handed out
C21_Witness ==
    /\ panicked = "none"
    /\ ~storages.alive
    /\ last.op = "drop"
    /\ Len(last.dropped) >= 1
    /\ vended # <<>>
    /\ Cardinality(DOMAIN dead) >= 3
    /\ Cardinality(DOMAIN given) = MaxInserts

ReplacePanicked == panicked = "drop of the replaced value panicked"

\* C22 as stated: when the drop of the old value panics in replace_unchecked,
\* the incoming value is dropped by the guard, no value is dropped twice, and
\* no value held by the BlobVec, the other rows included, is left without
\* ever being dropped.
C22_ReplaceUnwindNoLeak ==
    ReplacePanicked =>
        /\ \A v \in DOMAIN given : Drops(v) + Count(vended, v) <= 1
        /\ ~storages.alive =>
               \A v \in DOMAIN given : Drops(v) + Count(vended, v) = 1

\* C22 (amended): when the drop of the old value panics in replace_unchecked,
\* the old and the incoming value are each dropped once and no value is dropped
\* twice; len stays 0, so the other rows the BlobVec held are forgotten: the
\* BlobVec never drops them.
C22_ReplaceUnwindForgetsRows ==
    ReplacePanicked =>
        /\ TheBlobVec.len = 0
        /\ \A v \in DOMAIN given :
               IF v \in reach
               THEN Drops(v) = 0 /\ Count(vended, v) = 0
               ELSE Drops(v) + Count(vended, v) = 1
        /\ last.op = "replace" =>
               /\ Drops(last.value) = 1
               /\ Drops(last.old) = 1
               /\ last.value \notin reach /\ last.old \notin reach

\* the BlobVec was dropped after a replace unwound while it held other rows
C22_Witness ==
    /\ ReplacePanicked
    /\ ~storages.alive
    /\ Cardinality(reach) >= 1
    /\ vended # <<>>


(***************************************************************************)
(* A table with capacities.  The entity vector and every column carry the  *)
(* capacity of their allocation; a column is a BlobVec with two tick       *)
(* vectors.                                                                *)
(***************************************************************************)

MaxRows == 3
MaxAdditional == 2

\* the capacities Vec::reserve may leave: at least len + additional, and as
\* much as the amortized growth of the standard library takes
VecReserve(capacity, len, additional) ==
    IF capacity - len >= additional
    THEN {capacity}
    ELSE {len + additional,
          Max(2 * capacity, len + additional),
          Max(4, Max(2 * capacity, len + additional))}

\* Column::with_capacity
ColumnWithCapacity(drop, capacity) ==
    [data |-> BlobVecNew(drop, capacity),
     added_ticks |-> <<>>, changed_ticks |-> <<>>]

\* Column::len
ColumnLen(column) == column.data.len

ColumnReserveExactNothing(column, additional) == column

\* Column::reserve_exact (the tick vectors' capacities are not modelled)
ColumnReserveExact(column, additional) ==
    [column EXCEPT !.data = BlobVecReserveExact(@, additional)]

\* Column::initialize on a column that holds a BlobVec
ColumnDataInitialize(column, row, data, tick) ==
    [data |-> BlobVecInitializeUnchecked(column.data, row, data),
     added_ticks |-> [column.added_ticks EXCEPT ![row + 1] = tick],
     changed_ticks |-> [column.changed_ticks EXCEPT ![row + 1] = tick]]

\* Column::replace on a column that holds a BlobVec
ColumnDataReplace(column, row, data, tick, drop_panics) ==
    [data |-> BlobVecReplaceUnchecked(column.data, row, data, drop_panics).blob,
     added_ticks |-> column.added_ticks,
     changed_ticks |-> [column.changed_ticks EXCEPT ![row + 1] = tick]]

\* Column::clear
ColumnClear(column) ==
    [data |-> BlobVecClear(column.data).blob,
     added_ticks |-> <<>>, changed_ticks |-> <<>>]

\* Table::reserve, new_capacity being the capacity Vec::reserve left
TableReserveTo(table, additional, new_capacity) ==
    IF table.capacity - Len(table.entities) < additional
    THEN [table EXCEPT
             !.capacity = new_capacity,
             !.columns = [c \in DOMAIN @ |->
                 ColumnReserveExact(@[c], new_capacity - ColumnLen(@[c]))]]
    ELSE table

\* the part of Table::allocate after reserve(1): the entity is pushed, every
\* column has its length set and zero ticks pushed.  over is the set of
\* columns whose set_len is past the capacity.
TableAllocateReserved(table, entity) ==
    [row |-> Len(table.entities),
     over |-> {c \in DOMAIN table.columns :
                  Len(table.entities) + 1 > table.columns[c].data.capacity},
     table |-> [table EXCEPT
         !.entities = Append(@, entity),
         !.columns = [c \in DOMAIN @ |->
             [data |-> BlobVecSetLen(@[c].data, Len(table.entities) + 1),
              added_ticks |-> Append(@[c].added_ticks, 0),
              changed_ticks |-> Append(@[c].changed_ticks, 0)]]]]

\* Table::clear
TableClear(table) ==
    [table EXCEPT !.entities = <<>>,
                  !.columns = [c \in DOMAIN @ |-> ColumnClear(@[c])]]

\* the columns of the table driven below: "A" has a drop function, "B" none
TableColumns == {"A", "B"}

\* A table driven directly.  storages holds the table, built with the same
\* capacity for the entity vector and for every column; change_tick numbers
\* the rows and values written.
InitTable ==
    /\ entities = EntitiesNew
    /\ components = ComponentsDefault
    /\ \E capacity \in 0..1 :
           storages = [entities |-> <<>>, capacity |-> capacity,
                       columns |-> [c \in TableColumns |->
                           ColumnWithCapacity(c = "A", capacity)]]
    /\ archetypes = ArchetypesNew
    /\ bundles = BundlesDefault
    /\ change_tick = 1
    /\ threads = [t \in Threads |-> Idle]
    /\ qs = NoQuery
    /\ panicked = "none"
    /\ vended = <<>>
    /\ reserved = <<>>
    /\ dead = EmptyMap
    /\ reach = {}
    /\ given = EmptyMap
    /\ last = [op |-> "new"]

\* Table::reserve(additional)
TblReserve(additional) ==
    /\ panicked = "none"
    /\ Len(storages.entities) + additional <= MaxRows + MaxAdditional
    /\ \E new_capacity \in VecReserve(storages.capacity,
                                      Len(storages.entities), additional) :
           storages' = TableReserveTo(storages, additional, new_capacity)
    /\ last' = [op |-> "reserve", additional |-> additional]
    /\ UNCHANGED <<entities, threads, components, archetypes, bundles, qs, reserved, change_tick, panicked, vended, dead, reach, given>>

\* the table after allocate's reserve(1): the row is allocated and, as the
\* caller must, every column of it initialized; set_len's debug assertion
\* fails for a column without the capacity
TblAllocateIn(table) ==
    \E r \in {TableAllocateReserved(table, change_tick)} :
        IF r.over = {}
        THEN /\ storages' = [r.table EXCEPT
                    !.columns = [c \in DOMAIN @ |->
                        ColumnDataInitialize(@[c], r.row,
                            Value(change_tick, c), change_tick)]]
             /\ change_tick' = change_tick + 1
             /\ last' = [op |-> "allocate", row |-> r.row,
                         capacity |-> [c \in TableColumns |->
                                          table.columns[c].data.capacity]]
             /\ UNCHANGED panicked
        ELSE /\ panicked' = "assertion failed: len <= self.capacity()"
             /\ last' = [op |-> "set_len"]
             /\ UNCHANGED <<storages, change_tick>>

\* Table::allocate(entity) and the initialization of the new row
TblAllocate ==
    /\ panicked = "none"
    /\ change_tick <= MaxInserts
    /\ Len(storages.entities) < MaxRows
    /\ \E new_capacity \in VecReserve(storages.capacity,
                                      Len(storages.entities), 1) :
           TblAllocateIn(TableReserveTo(storages, 1, new_capacity))
    /\ UNCHANGED <<entities, threads, components, archetypes, bundles, qs, reserved, vended, dead, reach, given>>

\* Column::replace(row, data, change_tick) on column c; the drop of the old
\* value may panic
TblReplace(row, c, drop_panics) ==
    /\ panicked = "none"
    /\ change_tick <= MaxInserts
    /\ row < Len(storages.entities)
    /\ drop_panics => storages.columns[c].data.drop
    /\ storages' = [storages EXCEPT !.columns[c] =
           ColumnDataReplace(@, row, Value(change_tick, c), change_tick,
                             drop_panics)]
    /\ change_tick' = change_tick + 1
    /\ panicked' = IF drop_panics
                   THEN "drop of the replaced value panicked" ELSE panicked
    /\ last' = [op |-> "replace", row |-> row, column |-> c]
    /\ UNCHANGED <<entities, threads, components, archetypes, bundles, qs, reserved, vended, dead, reach, given>>

\* Table::clear
TblClear ==
    /\ panicked = "none"
    /\ storages.entities # <<>>
    /\ storages' = TableClear(storages)
    /\ last' = [op |-> "clear"]
    /\ UNCHANGED <<entities, threads, components, archetypes, bundles, qs, reserved, change_tick, panicked, vended, dead, reach, given>>

NextTable ==
    \/ \E additional \in 1..MaxAdditional : TblReserve(additional)
    \/ TblAllocate
    \/ \E row \in 0..(MaxRows - 1), c \in TableColumns, drop_panics \in BOOLEAN :
           TblReplace(row, c, drop_panics)
    \/ TblClear

SpecTable == InitTable /\ [][NextTable]_vars

-----------------------------------------------------------------------------
(* Identity of archetypes, checked under SpecGraph *)

\* the ids of the components of an archetype whose storage class is SparseSet
SparseClassComponents(archetype) ==
    {c \in Range(ArchetypeComponents(archetype)) :
        StorageTypeOf(components, c) = "SparseSet"}

\* the key of an archetype: its table component ids and its sparse component
\* ids (a set stands for the sorted list of its elements)
ArchetypeKey(archetype) ==
    [table_components |-> TableClassComponents(archetype),
     sparse_set_components |-> SparseClassComponents(archetype)]

\* Archetypes::get_id_or_insert keeps by_components and the archetype vector in
\* step: every key maps to the index of an archetype, no two keys to the same
\* one, and every archetype has its index as id
StoredKeysUnique ==
    /\ \A i \in 1..Len(archetypes.archetypes) :
           archetypes.archetypes[i].id = i - 1
    /\ \A key \in DOMAIN archetypes.by_components :
           archetypes.by_components[key] < Len(archetypes.archetypes)
    /\ \A k1, k2 \in DOMAIN archetypes.by_components :
           archetypes.by_components[k1] = archetypes.by_components[k2]
               => k1 = k2

\* C24: no two archetypes have the same (sorted table component ids, sorted
\* sparse component ids) key, the keys get_id_or_insert stores are such keys,
\* and archetypes[i].id = i for every i.
C24_ArchetypeKeysDiffer ==
    /\ StoredKeysUnique
    /\ \A i, j \in 1..Len(archetypes.archetypes) :
           i # j => ArchetypeKey(archetypes.archetypes[i])
                        # ArchetypeKey(archetypes.archetypes[j])
    /\ \A key \in DOMAIN archetypes.by_components :
           /\ Range(key.table_components) = ArchetypeKey(
                  archetypes.archetypes[archetypes.by_components[key] + 1]
              ).table_components

\* the part of C24 about the archetype vector: a step removes no archetype,
\* changes no id and no key, and the generation does not shrink
C24_ArchetypesOnlyAppended ==
    [][/\ ArchetypesGeneration(archetypes') >= ArchetypesGeneration(archetypes)
       /\ \A i \in 1..Len(archetypes.archetypes) :
              /\ archetypes'.archetypes[i].id = archetypes.archetypes[i].id
              /\ ArchetypeComponents(archetypes'.archetypes[i])
                     = ArchetypeComponents(archetypes.archetypes[i])
       /\ \A key \in DOMAIN archetypes.by_components :
              /\ key \in DOMAIN archetypes'.by_components
              /\ archetypes'.by_components[key] = archetypes.by_components[key]
      ]_vars

-----------------------------------------------------------------------------
(* The component registry, checked under SpecGraph: Bundles::init_info calls *)
(* init_component for every component type of the bundle, in tuple order    *)

\* the component types registered
Registered(comps) == DOMAIN comps.indices

\* the types of the tuple T that the registry comps does not know, each at its
\* first place in T
FirstNew(comps, T) ==
    {i \in 1..Len(T) : /\ T[i] \notin Registered(comps)
                       /\ \A j \in 1..(i - 1) : T[j] # T[i]}

\* C25: init_component::<T> is idempotent per type: the first call for T
\* assigns the id equal to the number of components registered so far, every
\* later call returns that id and adds no entry; ids form exactly [0, count),
\* distinct types have distinct ids, a ComponentInfo is never modified, and a
\* sparse set exists for an id exactly when the component's storage class is
\* SparseSet.
C25_InitComponentIdempotent ==
    [][/\ \A i \in 1..Len(components.components) :
              components'.components[i] = components.components[i]
       /\ \A T \in Registered(components) :
              /\ T \in Registered(components')
              /\ components'.indices[T] = components.indices[T]
       /\ Len(components'.components) = Cardinality(Registered(components'))
       /\ {components'.indices[T] : T \in Registered(components')}
              = 0..(Len(components'.components) - 1)
       /\ \A T \in Registered(components') :
              LET info == components'.components[components'.indices[T] + 1]
              IN  /\ info.id = components'.indices[T]
                  /\ info.name = T
                  /\ info.storage_type = STORAGE_TYPE(T)
       /\ \A id \in 0..(Len(components'.components) - 1) :
              id \in DOMAIN storages'.sparse_sets
                  <=> StorageTypeOf(components', id) = "SparseSet"
       /\ DOMAIN storages'.sparse_sets
              \subseteq 0..(Len(components'.components) - 1)
       /\ InitInfoStep =>
              /\ Registered(components')
                     = Registered(components) \cup Range(last'.T)
              /\ \A i \in FirstNew(components, last'.T) :
                     components'.indices[last'.T[i]]
                         = Len(components.components)
                           + Cardinality({j \in FirstNew(components, last'.T) :
                                             j < i})
      ]_vars

\* init_info of (A, S) found A registered, as the second component, and
\* registered the sparse component S as the third
C25_Witness ==
    /\ last.op = "init_info"
    /\ last.T = <<"A", "S">>
    /\ "A" \in Registered(components)
    /\ components.indices["A"] = 1
    /\ components.indices["S"] = 2
    /\ 2 \in DOMAIN storages.sparse_sets

-----------------------------------------------------------------------------
(* The end of the index space.  U32Max stands for u32::MAX: an index is a    *)
(* number of 0..U32Max, and u32::try_from fails for a larger one.           *)

U32Max == 3
MaxFrees == 1

\* Entity::PLACEHOLDER
PLACEHOLDER == Entity(U32Max, 1)

\* u32::try_from(x).expect("too many entities") panics
TooManyEntities(x) == x > U32Max

\* Entities::reserve_entity, taken as one step of one thread: fetch_sub on
\* free_cursor, then the entity from pending or from meta.len() - n
IdxReserveEntity ==
    /\ panicked = "none"
    /\ entities' = [entities EXCEPT !.free_cursor = @ - 1]
    /\ IF entities.free_cursor <= 0
          /\ TooManyEntities(ReserveFreshIndex(Len(entities.meta),
                                               entities.free_cursor))
       THEN /\ panicked' = "too many entities"
            /\ last' = [op |-> "reserve_entity", ok |-> FALSE]
            /\ UNCHANGED reserved
       ELSE \E entity \in {ReserveEntityOf(entities, entities.free_cursor)} :
                /\ reserved' = Append(reserved, entity)
                /\ last' = [op |-> "reserve_entity", ok |-> TRUE,
                            entity |-> entity]
                /\ UNCHANGED panicked
    /\ UNCHANGED <<threads, components, storages, archetypes, bundles, change_tick, qs, vended, dead, reach, given>>

\* x as u32
AsU32(x) == x % (U32Max + 1)

\* a += b on u32 panics in the debug build
AddOverflows(a, b) == a + b > U32Max

\* Entities::alloc on a flushed allocator
IdxAlloc ==
    /\ panicked = "none"
    /\ ~NeedsFlush(entities)
    /\ IF AddOverflows(entities.len, 1)
       THEN /\ panicked' = "attempt to add with overflow"
            /\ last' = [op |-> "alloc", ok |-> FALSE]
            /\ UNCHANGED <<entities, vended>>
       ELSE IF Len(entities.pending) = 0 /\ TooManyEntities(Len(entities.meta))
       THEN /\ panicked' = "too many entities"
            /\ entities' = [entities EXCEPT !.len = @ + 1]
            /\ last' = [op |-> "alloc", ok |-> FALSE]
            /\ UNCHANGED vended
       ELSE \E r \in {EntitiesAlloc(entities)} :
                /\ entities' = r.ents
                /\ vended' = Append(vended, r.entity)
                /\ last' = [op |-> "alloc", ok |-> TRUE, entity |-> r.entity]
                /\ UNCHANGED panicked
    /\ UNCHANGED <<threads, components, storages, archetypes, bundles, change_tick, qs, reserved, dead, reach, given>>

\* Entities::flush(init) with len as the source computes it: the number of
\* fresh ids and the number of drained ids are cast to u32 and added to len.
\* fresh and drained are those numbers after the cast.
IdxFlushCounting(location, order, fresh, drained) ==
    IF AddOverflows(entities.len, fresh)
       \/ AddOverflows(entities.len + fresh, drained)
    THEN /\ panicked' = "attempt to add with overflow"
         /\ entities' = [entities EXCEPT !.meta = FlushMeta(entities)]
         /\ last' = [op |-> "flush", ok |-> FALSE]
         /\ UNCHANGED <<vended, reserved>>
    ELSE /\ entities' = [EntitiesFlush(entities,
                              [i \in 1..Len(order) |-> location])
                            EXCEPT !.len = entities.len + fresh + drained]
         /\ vended' = vended \o order
         /\ reserved' = <<>>
         /\ last' = [op |-> "flush", ok |-> TRUE, init |-> order,
                     reserved |-> reserved, meta_len |-> Len(entities.meta)]
         /\ UNCHANGED panicked

\* Entities::flush(init)
IdxFlush(location) ==
    /\ panicked = "none"
    /\ IdxFlushCounting(location, FlushOrder(entities),
           AsU32(Len(FlushMeta(entities)) - Len(entities.meta)),
           AsU32(Len(entities.pending)
                 - FlushNewFreeCursor(entities.free_cursor)))
    /\ UNCHANGED <<threads, components, storages, archetypes, bundles, change_tick, qs, dead, reach, given>>

NextIndexSpace ==
    \/ IdxReserveEntity
    \/ IdxAlloc
    \/ \E entity \in Range(vended) :
           Cardinality(DOMAIN dead) < MaxFrees /\ Free(entity)
    \/ \E location \in ValidLocations : IdxFlush(location)

SpecIndexSpace == Init /\ [][NextIndexSpace]_vars

\* C26: the placeholder is never live: no alloc, reserve_entity or flush vends
\* an entity whose index is u32::MAX, the index of Entity::PLACEHOLDER;
\* exhausting the index space is the fatal error 'too many entities' instead.
C26_PlaceholderNeverVended ==
    /\ \A e \in Range(vended) \cup Range(reserved) : e.index # U32Max
    /\ PLACEHOLDER \notin Range(vended) \cup Range(reserved)

-----------------------------------------------------------------------------
(* Order of iteration, checked under SpecWorld *)

\* the table and the table row that hold the entity
StoredAt(entity) == entities.meta[entity.index + 1].location

-----------------------------------------------------------------------------
(* A QueryState handed another world, checked under SpecWorld *)

\* C28: update_archetypes and iter called with a world whose id differs from
\* the world_id the QueryState stores panic ('mismatched World') before any
\* field of the QueryState is modified; called with the world the QueryState
\* was created from they do not.
C28_MismatchedWorldRejected ==
    [][/\ (last'.op = "validate_world" /\ last'.world_id # qs.world_id) =>
              /\ panicked' = "Encountered a mismatched World"
              /\ qs' = qs
       /\ last'.op \in {"update_archetypes", "iter"} =>
              /\ panicked' = "none"
              /\ qs'.world_id = qs.world_id
       /\ qs.built => qs'.world_id = TheWorldId
      ]_vars

\* iter was called with another world on a QueryState that has matched tables
\* and has not seen the newest archetypes
C28_Witness ==
    /\ panicked = "Encountered a mismatched World"
    /\ last.op = "validate_world"
    /\ last.caller = "iter"
    /\ qs.matched_storage_ids # <<>>
    /\ qs.archetype_generation < ArchetypesGeneration(archetypes)

-----------------------------------------------------------------------------
(* WorldId::next: world/world.rs.  change_tick holds the static WORLD_ID, an *)
(* AtomicU32 of the scaled width U32Max; threads[t].n is the value a thread  *)
(* read last; vended lists the ids returned, in the order of the returns,    *)
(* given names the thread each id was returned to, and reach the threads    *)
(* whose compare_exchange_weak has failed.                                  *)
(* AtomicU32::fetch_update is a load followed by compare_exchange_weak in a  *)
(* loop.                                                                     *)

\* u32::checked_add(v, 1)
CheckedAdd(v) == IF v = U32Max THEN None ELSE Some(v + 1)

CompareExchangeBlind(current, expected) == TRUE

\* compare_exchange_weak stores the new value
CompareExchangeStores(current, expected) == current = expected

InitWorldId ==
    /\ entities = EntitiesNew
    /\ components = ComponentsDefault
    /\ storages = [tables |-> TablesNew, sparse_sets |-> EmptyMap]
    /\ archetypes = ArchetypesNew
    /\ bundles = BundlesDefault
    /\ change_tick = 0
    /\ threads = [t \in Threads |-> Idle]
    /\ qs = NoQuery
    /\ panicked = "none"
    /\ vended = <<>>
    /\ reserved = <<>>
    /\ dead = EmptyMap
    /\ reach = {}
    /\ given = EmptyMap
    /\ last = [op |-> "new"]

\* WorldId::next is called: fetch_update loads WORLD_ID
WorldIdLoad(t) ==
    /\ threads[t].pc = "idle"
    /\ threads' = [threads EXCEPT ![t] = [pc |-> "loaded", n |-> change_tick]]
    /\ last' = [op |-> "load", thread |-> t]
    /\ UNCHANGED <<entities, components, storages, archetypes, bundles, change_tick, qs, panicked, vended, reserved, dead, reach, given>>

\* the closure returned Some(next): compare_exchange_weak stores next and
\* next() returns the previous value as the id, or it fails, because another
\* value is stored or spuriously, and the loop goes on with the value found
WorldIdCompareExchange(t, spurious) ==
    /\ threads[t].pc = "loaded"
    /\ CheckedAdd(threads[t].n) # None
    /\ IF CompareExchangeStores(change_tick, threads[t].n) /\ ~spurious
       THEN /\ change_tick' = CheckedAdd(threads[t].n).val
            /\ vended' = Append(vended, threads[t].n)
            /\ given' = (threads[t].n :> t) @@ given
            /\ threads' = [threads EXCEPT ![t] = Idle]
            /\ last' = [op |-> "next", thread |-> t,
                        result |-> Some(threads[t].n)]
            /\ UNCHANGED reach
       ELSE /\ threads' = [threads EXCEPT ![t].n = change_tick]
            /\ reach' = reach \cup {t}
            /\ last' = [op |-> "retry", thread |-> t]
            /\ UNCHANGED <<change_tick, vended, given>>
    /\ UNCHANGED <<entities, components, storages, archetypes, bundles, qs, panicked, reserved, dead>>

\* the closure returned None: fetch_update gives Err and next() returns None
WorldIdNone(t) ==
    /\ threads[t].pc = "loaded"
    /\ CheckedAdd(threads[t].n) = None
    /\ threads' = [threads EXCEPT ![t] = Idle]
    /\ last' = [op |-> "next", thread |-> t, result |-> None]
    /\ UNCHANGED <<entities, components, storages, archetypes, bundles, change_tick, qs, panicked, vended, reserved, dead, reach, given>>

NextWorldId ==
    \/ \E t \in Threads : WorldIdLoad(t)
    \/ \E t \in Threads, spurious \in BOOLEAN :
           WorldIdCompareExchange(t, spurious)
    \/ \E t \in Threads : WorldIdNone(t)

SpecWorldId == InitWorldId /\ [][NextWorldId]_vars

\* C29: WorldId::next never returns the same id twice, also when called from
\* several threads at once; when the counter has reached u32::MAX it returns
\* None and the counter does not wrap.
C29_WorldIdsUnique ==
    /\ \A j, k \in 1..Len(vended) : j # k => vended[j] # vended[k]
    /\ Range(vended) = 0..(change_tick - 1)
    /\ change_tick <= U32Max
    /\ (last.op = "next" /\ last.result = None) => change_tick = U32Max
    /\ (last.op = "next" /\ last.result # None) => last.result.val < U32Max

\* next returned None to a thread after every id was taken, both threads
\* having got ids and both having lost a compare_exchange_weak to the other
C29_Witness ==
    /\ last.op = "next"
    /\ last.result = None
    /\ Len(vended) = U32Max
    /\ {given[id] : id \in DOMAIN given} = Threads
    /\ reach = Threads

-----------------------------------------------------------------------------
(* The entity count *)

\* no reservation is waiting for a flush
Flushed == ~NeedsFlush(entities) /\ AllIdle

\* C30: entities.len() is the number of live entities: 0 for a new allocator,
\* one more per alloc and per reserved entity a flush makes live, one less per
\* successful free and unchanged by a failed one; in every flushed state
\* len + pending.len() = meta.len().
C30_LenCountsLive ==
    /\ entities.len = Len(vended)
    /\ Flushed => entities.len + Len(entities.pending) = Len(entities.meta)
    /\ last.op = "new" => entities.len = 0
    /\ last.op = "flush" =>
           /\ Len(last.init) = Len(last.reserved)
           /\ entities.len >= Len(last.reserved)

-----------------------------------------------------------------------------
(* Adding a bundle to an archetype, checked under SpecGraph *)

\* the step is an add_bundle_to_archetype(from, bundle) that found no edge
FirstTraversal ==
    /\ last'.op = "add_bundle_to_archetype"
    /\ last'.bundle \notin DOMAIN archetypes.archetypes[last'.from + 1].edges

\* the key by_components holds for the archetype with the given id
StoredKey(archs, archetype_id) ==
    CHOOSE key \in DOMAIN archs.by_components :
        archs.by_components[key] = archetype_id

\* the status vector of the bundle against the archetype
StatusAgainst(archetype, ids) ==
    [i \in 1..Len(ids) |->
        IF ids[i] \in Range(ArchetypeComponents(archetype))
        THEN "Mutated" ELSE "Added"]

\* the part of C31 about the status vector and the destination's component set
BundleStatusAndUnion ==
    [][FirstTraversal =>
          LET A == archetypes.archetypes[last'.from + 1]
              ids == bundles.bundle_infos[last'.bundle + 1].component_ids
              edge == archetypes'.archetypes[last'.from + 1].edges[last'.bundle]
              D == archetypes'.archetypes[last'.to + 1]
          IN  /\ edge.bundle_status = StatusAgainst(A, ids)
              /\ edge.archetype_id = last'.to
              /\ (\A i \in 1..Len(ids) : edge.bundle_status[i] = "Mutated")
                     <=> last'.to = last'.from
              /\ Range(ArchetypeComponents(D))
                     = Range(ArchetypeComponents(A)) \cup Range(ids)]_vars

\* C31: on the first traversal of add_bundle_to_archetype(A, B) status[i] is
\* Mutated iff the i-th component of B is in A, else Added; with no component
\* Added the destination is A; otherwise the destination's component set is
\* components(A) united with components(B), each component in the partition
\* (table or sparse) of its own storage class.
C31_AddBundleDestination ==
    [][FirstTraversal =>
          LET A == archetypes.archetypes[last'.from + 1]
              ids == bundles.bundle_infos[last'.bundle + 1].component_ids
              edge == archetypes'.archetypes[last'.from + 1].edges[last'.bundle]
              D == archetypes'.archetypes[last'.to + 1]
              key == StoredKey(archetypes', last'.to)
          IN  /\ edge.bundle_status = StatusAgainst(A, ids)
              /\ (\A i \in 1..Len(ids) : edge.bundle_status[i] = "Mutated")
                     => last'.to = last'.from
              /\ (\E i \in 1..Len(ids) : edge.bundle_status[i] = "Added") =>
                     /\ Range(ArchetypeComponents(D))
                            = Range(ArchetypeComponents(A)) \cup Range(ids)
                     /\ \A c \in Range(key.table_components) :
                            StorageTypeOf(components, c) = "Table"
                     /\ \A c \in Range(key.sparse_set_components) :
                            StorageTypeOf(components, c) = "SparseSet"
                     /\ \A c \in DOMAIN
                            storages'.tables.tables[D.table_id + 1].columns :
                            StorageTypeOf(components, c) = "Table"]_vars

-----------------------------------------------------------------------------
(* The edge cache, checked under SpecGraph *)

\* the archetypes without the edge of archetype_id for bundle_id
WithoutEdge(archs, archetype_id, bundle_id) ==
    [archs EXCEPT !.archetypes[archetype_id + 1].edges =
        [b \in DOMAIN @ \ {bundle_id} |-> @[b]]]

\* what add_bundle_to_archetype computes when it finds no edge, in the state
\* given by archs and stor
Uncached(archs, stor, archetype_id, bundle_id) ==
    AddBundleToArchetype(bundles.bundle_infos[bundle_id + 1],
                         WithoutEdge(archs, archetype_id, bundle_id),
                         stor, components, archetype_id)

\* the edge agrees with the result r of the uncached computation, which
\* creates no archetype and no table
EdgeAgrees(archs, stor, archetype_id, bundle_id, r) ==
    /\ r.id = archs.archetypes[archetype_id + 1].edges[bundle_id].archetype_id
    /\ r.archetypes.archetypes[archetype_id + 1].edges[bundle_id]
           = archs.archetypes[archetype_id + 1].edges[bundle_id]
    /\ Len(r.archetypes.archetypes) = Len(archs.archetypes)
    /\ r.storages = stor

\* every cached edge agrees with the uncached computation
CacheAgrees(archs, stor) ==
    \A a \in 1..Len(archs.archetypes) :
        \A b \in DOMAIN archs.archetypes[a].edges :
            EdgeAgrees(archs, stor, a - 1, b, Uncached(archs, stor, a - 1, b))

\* the step is an add_bundle_to_archetype(from, bundle) that found the edge
CachedTraversal ==
    /\ last'.op = "add_bundle_to_archetype"
    /\ last'.bundle \in DOMAIN archetypes.archetypes[last'.from + 1].edges

\* C32: once add_bundle_to_archetype(A, B) has returned D, every later call
\* with the same (A, B) returns D from the cache and creates no archetype and
\* no table, and in every later state D and the cached status vector are what
\* the uncached computation would return.
C32_EdgeCacheTransparent ==
    [][/\ CachedTraversal =>
              /\ last'.to = archetypes.archetypes[last'.from + 1]
                                .edges[last'.bundle].archetype_id
              /\ archetypes' = archetypes
              /\ storages' = storages
       /\ FirstTraversal =>
              archetypes'.archetypes[last'.from + 1].edges[last'.bundle]
                  .archetype_id = last'.to
       /\ \A a \in 1..Len(archetypes.archetypes) :
              \A b \in DOMAIN archetypes.archetypes[a].edges :
                  archetypes'.archetypes[a].edges[b]
                      = archetypes.archetypes[a].edges[b]
       /\ CacheAgrees(archetypes', storages')]_vars

\* a cached call was answered after archetypes were created that the first
\* call had not seen, for an edge that leads to another archetype
C32_Witness ==
    /\ last.op = "add_bundle_to_archetype"
    /\ last.cached
    /\ last.to # last.from
    /\ last.to + 1 < Len(archetypes.archetypes)
    /\ EdgeCount = MaxEdges
    /\ \E a \in 1..Len(archetypes.archetypes) :
           Cardinality(DOMAIN archetypes.archetypes[a].edges) >= 2

-----------------------------------------------------------------------------
(* What World::spawn leaves in the destination table, checked under SpecWorld *)

\* the positions of the bundle type T whose component is stored in a table
TablePositions(T) == {i \in 1..Len(T) : STORAGE_TYPE(T[i]) = "Table"}

\* C33: when World::spawn returns, no column of the destination table is left
\* uninitialized at the new row: the table-class components written by the
\* bundle are exactly the table's columns, each written once at that row, and
\* the added and changed ticks of the row are the change tick of the spawn,
\* which is not zero.
C33_SpawnInitializesRow ==
    (last.op = "spawn" /\ panicked = "none") =>
        LET T == last.T
            ids == bundles.bundle_infos[bundles.bundle_ids[T] + 1].component_ids
            at == StoredAt(last.entity)
            table == storages.tables.tables[at.table_id + 1]
            row == at.table_row
        IN  /\ {ids[i] : i \in TablePositions(T)} = DOMAIN table.columns
            /\ Cardinality(TablePositions(T)) = Cardinality(DOMAIN table.columns)
            /\ table.entities[row + 1] = last.entity
            /\ row + 1 = Len(table.entities)
            /\ change_tick # 0
            /\ \A c \in DOMAIN table.columns :
                   /\ Len(table.columns[c].data) = Len(table.entities)
                   /\ table.columns[c].data[row + 1] # UNINIT
                   /\ table.columns[c].added_ticks[row + 1] = change_tick
                   /\ table.columns[c].changed_ticks[row + 1] = change_tick

\* a bundle with a table component and a sparse one was spawned into a table
\* that already held a row, in a world that also has a table of two columns
C33_Witness ==
    /\ last.op = "spawn"
    /\ panicked = "none"
    /\ StoredAt(last.entity).table_row >= 1
    /\ TablePositions(last.T) # {}
    /\ Cardinality(TablePositions(last.T)) < Len(last.T)
    /\ \E t \in 1..Len(storages.tables.tables) :
           /\ Cardinality(DOMAIN storages.tables.tables[t].columns) = 2
           /\ storages.tables.tables[t].entities # <<>>

-----------------------------------------------------------------------------
(* Tuple bundles, nested ones included: bundle.rs, tuple_impl.  A bundle    *)
(* type is a tree: a component type (a leaf with its name), or a tuple of    *)
(* bundle types (its kids).                                                  *)

Leaf(name) == [name |-> name, kids |-> <<>>]

Tuple(kids) == [name |-> "", kids |-> kids]

IsLeaf(B) == B.name # ""

Reverse(s) == [i \in 1..Len(s) |-> s[Len(s) + 1 - i]]

\* the bundle types spawned below
TupleTypes ==
    {Tuple(<<Leaf("A"), Tuple(<<Leaf("B"), Leaf("S")>>)>>),
     Tuple(<<Tuple(<<Leaf("B"), Leaf("A")>>), Leaf("S")>>),
     Tuple(<<Tuple(<<Leaf("S"), Leaf("A")>>)>>),
     Tuple(<<Tuple(<<>>), Leaf("B"), Tuple(<<Tuple(<<Leaf("A")>>)>>)>>),
     Tuple(<<Leaf("S"), Leaf("B")>>),
     Tuple(<<Tuple(<<Leaf("A")>>), Tuple(<<Leaf("B"), Leaf("A")>>)>>)}

\* <(..) as Bundle>::component_ids on the bundle types of list, one after the
\* other: a component type registers itself and emits its id, a tuple calls
\* component_ids of its members from left to right
RECURSIVE TupleComponentIds(_, _, _, _)
TupleComponentIds(comps, stor, list, ids) ==
    IF list = <<>>
    THEN [ids |-> ids, components |-> comps, storages |-> stor]
    ELSE IF IsLeaf(Head(list))
         THEN LET r == InitComponent(comps, stor, Head(list).name)
              IN  TupleComponentIds(r.components, r.storages, Tail(list),
                                    Append(ids, r.id))
         ELSE TupleComponentIds(comps, stor, Head(list).kids \o Tail(list), ids)

RECURSIVE TupleGetComponentsReversed(_)
TupleGetComponentsReversed(list) ==
    IF list = <<>>
    THEN <<>>
    ELSE IF IsLeaf(Head(list))
         THEN <<Head(list).name>> \o TupleGetComponentsReversed(Tail(list))
         ELSE TupleGetComponentsReversed(Reverse(Head(list).kids) \o Tail(list))

\* <(..) as DynamicBundle>::get_components on the bundle values of list: the
\* component types of the values handed to func, in call order; a tuple calls
\* get_components of its members from left to right
RECURSIVE TupleGetComponents(_)
TupleGetComponents(list) ==
    IF list = <<>>
    THEN <<>>
    ELSE IF IsLeaf(Head(list))
         THEN <<Head(list).name>> \o TupleGetComponents(Tail(list))
         ELSE TupleGetComponents(Head(list).kids \o Tail(list))

\* Bundles::init_info::<B> for the tuple type B
TupleInitInfo(bnd, comps, stor, B) ==
    IF B \in DOMAIN bnd.bundle_ids
    THEN [panic |-> FALSE, id |-> bnd.bundle_ids[B], bundles |-> bnd,
          components |-> comps, storages |-> stor]
    ELSE LET r == TupleComponentIds(comps, stor, <<B>>, <<>>)
             id == Len(bnd.bundle_infos)
         IN  IF HasDuplicateComponents(r.ids)
             THEN [panic |-> TRUE, id |-> INVALID, bundles |-> bnd,
                   components |-> r.components, storages |-> r.storages]
             ELSE [panic |-> FALSE, id |-> id,
                   bundles |-> [bundle_infos |-> Append(bnd.bundle_infos,
                                    [id |-> id, component_ids |-> r.ids]),
                                bundle_ids |-> (B :> id) @@ bnd.bundle_ids],
                   components |-> r.components, storages |-> r.storages]

\* World::spawn of the value n of the tuple type B, from entities.alloc() on
TupleSpawnAllocated(w, al, tick, B, n) ==
    SpawnEntity(al.entity,
                SpawnerOfInfo([w EXCEPT !.entities = al.ents],
                              TupleInitInfo(w.bundles, w.components,
                                            w.storages, B)),
                tick, TupleGetComponents(<<B>>), n)

\* World::spawn(bundle) for the value n of the tuple type B
SpawnTuple(B, n) ==
    /\ panicked = "none"
    /\ Len(entities.meta) < MaxMeta
    /\ \E w \in {WorldFlushEntities(TheWorld)} :
       \E r \in {TupleSpawnAllocated(w, EntitiesAlloc(w.entities),
                                     change_tick, B, n)} :
           /\ entities' = r.world.entities
           /\ components' = r.world.components
           /\ storages' = r.world.storages
           /\ archetypes' = r.world.archetypes
           /\ bundles' = r.world.bundles
           /\ IF r.panic
              THEN /\ panicked' = "Bundle has duplicate components"
                   /\ UNCHANGED <<vended, given>>
              ELSE /\ panicked' = panicked
                   /\ vended' = Append(vended, r.entity)
                   /\ given' = (r.entity :> [T |-> B, n |-> n]) @@ given
           /\ last' = [op |-> "spawn", entity |-> r.entity, T |-> B]
    /\ UNCHANGED <<threads, change_tick, qs, reserved, dead, reach>>

NextTuples == \E B \in TupleTypes : SpawnTuple(B, NextValue)

SpecTuples == Init /\ [][NextTuples]_vars

\* the component types of the bundle types of list
RECURSIVE LeafNames(_)
LeafNames(list) ==
    IF list = <<>>
    THEN {}
    ELSE IF IsLeaf(Head(list))
         THEN {Head(list).name} \cup LeafNames(Tail(list))
         ELSE LeafNames(Head(list).kids) \cup LeafNames(Tail(list))

\* the value the entity has for the component type c, whose storage class
\* decides where it is looked up: the column of c's id in the entity's table,
\* or the sparse set of c's id
StoredValue(entity, c) ==
    LET id == components.indices[c]
        at == StoredAt(entity)
    IN  IF STORAGE_TYPE(c) = "Table"
        THEN IF id \in DOMAIN storages.tables.tables[at.table_id + 1].columns
             THEN storages.tables.tables[at.table_id + 1].columns[id]
                      .data[at.table_row + 1]
             ELSE UNINIT
        ELSE IF /\ id \in DOMAIN storages.sparse_sets
                /\ entity.index \in DOMAIN storages.sparse_sets[id].sparse
             THEN storages.sparse_sets[id].dense
                      .data[storages.sparse_sets[id].sparse[entity.index] + 1]
             ELSE UNINIT

\* C34: for every tuple bundle, nested ones included, component_ids emits the
\* ids in the order in which get_components yields the values, so that the
\* i-th value is written to the storage of the i-th id and every value lands
\* in the column or sparse set of its own type and storage class.
C34_TupleOrderAgrees ==
    /\ \A B \in DOMAIN bundles.bundle_ids :
           LET ids == bundles.bundle_infos[bundles.bundle_ids[B] + 1].component_ids
               values == TupleGetComponents(<<B>>)
           IN  /\ Len(ids) = Len(values)
               /\ \A i \in 1..Len(ids) :
                      /\ ids[i] = components.indices[values[i]]
                      /\ StorageTypeOf(components, ids[i]) = STORAGE_TYPE(values[i])
    /\ \A entity \in DOMAIN given :
           \A c \in LeafNames(<<given[entity].T>>) :
               StoredValue(entity, c) = Value(given[entity].n, c)

\* a nested tuple with a sparse component was spawned after a tuple that
\* registered the same components in another order
C34_Witness ==
    /\ last.op = "spawn"
    /\ panicked = "none"
    /\ last.T = Tuple(<<Tuple(<<Leaf("B"), Leaf("A")>>), Leaf("S")>>)
    /\ components.indices["A"] < components.indices["B"]
    /\ Len(vended) = 3

-----------------------------------------------------------------------------
(* What reserve_entity returns, checked under SpecEntities *)

\* the atomic decrement leaves meta and pending alone and hands the value
\* before the decrement to the thread
FetchSubStep ==
    (last'.op = "fetch_sub") =>
        /\ entities'.free_cursor = entities.free_cursor - 1
        /\ threads'[last'.thread].n = entities.free_cursor
        /\ entities'.meta = entities.meta
        /\ entities'.pending = entities.pending
        /\ entities'.len = entities.len

\* C35, as stated: reserve_entity decrements free_cursor; if the result of the
\* decrement is > 0 it reuses the index stored at pending[result], with that
\* index's current generation, otherwise it vends the fresh index
\* meta.len() + |free_cursor|, free_cursor being the result, with generation
\* 1; it never modifies meta or pending.
C35_ReserveByResult ==
    [][/\ FetchSubStep
       /\ (last'.op = "reserve_entity") =>
              LET result == threads[last'.thread].n - 1
              IN  /\ entities' = entities
                  /\ IF result > 0
                     THEN /\ last'.entity.index = entities.pending[result + 1]
                          /\ last'.entity.generation =
                                 entities.meta[last'.entity.index + 1].generation
                     ELSE /\ last'.entity.index =
                                 Len(entities.meta)
                                     + (IF result < 0 THEN 0 - result ELSE result)
                          /\ last'.entity.generation = 1]_vars

\* C35, amended: reserve_entity decrements free_cursor; if the value n before
\* the decrement is > 0 (the result is >= 0) it reuses the index stored at
\* pending[n - 1], which is pending[result], with that index's current
\* generation; otherwise it vends the fresh index meta.len() - n, which is
\* meta.len() + |n|, with generation 1; it never modifies meta or pending.
C35_ReserveByPrevious ==
    [][/\ FetchSubStep
       /\ (last'.op = "reserve_entity") =>
              LET n == threads[last'.thread].n
              IN  /\ entities' = entities
                  /\ IF n > 0
                     THEN /\ last'.entity.index = entities.pending[(n - 1) + 1]
                          /\ last'.entity.generation =
                                 entities.meta[last'.entity.index + 1].generation
                     ELSE /\ last'.entity.index =
                                 Len(entities.meta) + (0 - n)
                          /\ last'.entity.generation = 1]_vars

\* with one index on the free list, reserve_entity returned it: the decrement
\* gave 0
C35_Witness ==
    /\ last.op = "reserve_entity"
    /\ last.entity.generation > 1
    /\ Len(entities.pending) = 1
    /\ last.entity.index = entities.pending[1]

-----------------------------------------------------------------------------
(* Entities::get on pending entities, checked under SpecEntities *)

\* the entities handed out by reserve_entity and not flushed yet, and those
\* handed out by alloc or made live by flush whose location is still invalid
PendingEntities ==
    Range(reserved) \cup
        {e \in Range(vended) :
            entities.meta[e.index + 1].location = LocationINVALID}

\* Entities::get answers None for every pending entity
GetPendingIsNone ==
    \A e \in PendingEntities : EntitiesGet(entities, e) = None

\* C36: Entities::get returns Some(EntityLocation::INVALID) for a pending
\* entity, one that was reserved or allocated but was not given a location yet.
C36_GetPendingIsInvalid ==
    \A e \in PendingEntities : EntitiesGet(entities, e) = Some(LocationINVALID)

-----------------------------------------------------------------------------
(* The free cursor and the pending list, checked under SpecEntities *)

\* the reserve_entity calls that decremented free_cursor and were not flushed:
\* those that returned, and those still between the decrement and the return
Unflushed ==
    Len(reserved) + Cardinality({t \in Threads : threads[t].pc # "idle"})

\* C37: after every alloc, every free (successful or not) and every flush
\* free_cursor equals pending.len(); free_cursor differs from pending.len()
\* exactly while some reserve_entity has not been flushed yet; and every
\* meta[i].generation is at least 1.
C37_CursorAtPendingEnd ==
    /\ (panicked = "none" /\ last.op \in {"alloc", "free", "flush"}) =>
           /\ entities.free_cursor = Len(entities.pending)
           /\ Unflushed = 0
    /\ (entities.free_cursor # Len(entities.pending)) <=> (Unflushed > 0)
    /\ Len(entities.pending) - entities.free_cursor = Unflushed
    /\ \A i \in 1..Len(entities.meta) : entities.meta[i].generation >= 1

\* a free that failed, on an allocator whose free list is not empty and which
\* holds an index whose generation wrapped around to 1
C37_Witness ==
    /\ panicked = "none"
    /\ last.op = "free"
    /\ ~last.ok
    /\ entities.pending # <<>>
    /\ \E e \in DOMAIN dead :
           /\ e.generation = GenMax
           /\ entities.meta[e.index + 1].generation = 1

-----------------------------------------------------------------------------
(* Change ticks: component/tick.rs.  The u32 of a Tick is scaled to          *)
(* 0..TickU32Max and CHECK_TICK_THRESHOLD with it.  One component is         *)
(* followed: storages holds its ComponentTicks, change_tick is the world     *)
(* tick, qs the last_run tick of a system.  reach counts, without wrapping,  *)
(* the increments of the world tick since each of these ticks was set and    *)
(* since the last scan.                                                      *)

\* u32::MAX, scaled
TickU32Max == 7

\* CHECK_TICK_THRESHOLD, scaled
CHECK_TICK_THRESHOLD == 2

MAX_CHANGE_AGE == TickU32Max - (2 * CHECK_TICK_THRESHOLD - 1)

\* the increments counted before the world tick is stopped
MaxTrueAge == TickU32Max + CHECK_TICK_THRESHOLD + 1

TickValues == 0..TickU32Max

\* u32::wrapping_sub
WrappingSub(a, b) == (a - b + (TickU32Max + 1)) % (TickU32Max + 1)

\* u32::wrapping_add
WrappingAdd(a, b) == (a + b) % (TickU32Max + 1)

\* Tick::relative_to: self - other
RelativeTo(self, other) == WrappingSub(self, other)

IsNewerThanUnclamped(self, last_run, this_run) ==
    RelativeTo(this_run, last_run) > RelativeTo(this_run, self)

\* Tick::is_newer_than
IsNewerThan(self, last_run, this_run) ==
    Min(RelativeTo(this_run, last_run), MAX_CHANGE_AGE)
        > Min(RelativeTo(this_run, self), MAX_CHANGE_AGE)

CheckTickAtLimit(self, tick) ==
    IF RelativeTo(tick, self) >= MAX_CHANGE_AGE
    THEN [tick |-> RelativeTo(tick, MAX_CHANGE_AGE + 1), wrapped |-> TRUE]
    ELSE [tick |-> self, wrapped |-> FALSE]

\* Tick::check_tick: the tick after the call and the value returned
CheckTick(self, tick) ==
    IF RelativeTo(tick, self) > MAX_CHANGE_AGE
    THEN [tick |-> RelativeTo(tick, MAX_CHANGE_AGE), wrapped |-> TRUE]
    ELSE [tick |-> self, wrapped |-> FALSE]

\* ComponentTicks::new
ComponentTicksNew(tick) == [added |-> tick, changed |-> tick]

\* ComponentTicks::is_added
IsAdded(ticks, last_run, this_run) == IsNewerThan(ticks.added, last_run, this_run)

\* ComponentTicks::is_changed
IsChanged(ticks, last_run, this_run) ==
    IsNewerThan(ticks.changed, last_run, this_run)

\* a component added at any world tick, by a system that runs at that tick
InitTicks ==
    /\ change_tick \in TickValues
    /\ storages = ComponentTicksNew(change_tick)
    /\ qs = [last_run |-> change_tick]
    /\ reach = [added |-> 0, changed |-> 0, last_run |-> 0, scan |-> 0]
    /\ entities = EntitiesNew
    /\ components = ComponentsDefault
    /\ archetypes = ArchetypesNew
    /\ bundles = BundlesDefault
    /\ threads = [t \in Threads |-> Idle]
    /\ panicked = "none"
    /\ vended = <<>>
    /\ reserved = <<>>
    /\ dead = EmptyMap
    /\ given = EmptyMap
    /\ last = [op |-> "new"]

\* the world tick advances by one; a scan is due after at most
\* 2 * CHECK_TICK_THRESHOLD - 1 increments
TickIncrement ==
    /\ reach.scan < 2 * CHECK_TICK_THRESHOLD - 1
    /\ reach.added < MaxTrueAge
    /\ change_tick' = WrappingAdd(change_tick, 1)
    /\ reach' = [added |-> reach.added + 1, changed |-> reach.changed + 1,
                 last_run |-> Min(reach.last_run + 1, MaxTrueAge),
                 scan |-> reach.scan + 1]
    /\ last' = [op |-> "increment"]
    /\ UNCHANGED <<entities, threads, components, storages, archetypes,
                   bundles, qs, panicked, vended, reserved, dead, given>>

\* ComponentTicks::set_changed(world.change_tick())
TickSetChanged ==
    /\ reach.changed > 0
    /\ storages' = [storages EXCEPT !.changed = change_tick]
    /\ reach' = [reach EXCEPT !.changed = 0]
    /\ last' = [op |-> "set_changed"]
    /\ UNCHANGED <<entities, threads, components, archetypes, bundles,
                   change_tick, qs, panicked, vended, reserved, dead, given>>

\* a system runs at the world tick: it reads is_added and is_changed with its
\* last_run, and the world tick becomes its last_run
TickSystemRun ==
    /\ reach.last_run > 0
    /\ last' = [op |-> "run",
                is_added |-> IsAdded(storages, qs.last_run, change_tick),
                is_changed |-> IsChanged(storages, qs.last_run, change_tick)]
    /\ qs' = [last_run |-> change_tick]
    /\ reach' = [reach EXCEPT !.last_run = 0]
    /\ UNCHANGED <<entities, threads, components, storages, archetypes,
                   bundles, change_tick, panicked, vended, reserved, dead, given>>

\* a scan: check_tick(world tick) on both ticks of the component, as
\* Column::check_change_ticks and ComponentSparseSet::check_change_ticks do
TickScan ==
    /\ reach.scan > 0
    /\ \E a \in {CheckTick(storages.added, change_tick)},
          c \in {CheckTick(storages.changed, change_tick)} :
           /\ storages' = [added |-> a.tick, changed |-> c.tick]
           /\ last' = [op |-> "check_tick", added |-> a.wrapped,
                       changed |-> c.wrapped]
    /\ reach' = [reach EXCEPT !.scan = 0]
    /\ UNCHANGED <<entities, threads, components, archetypes, bundles,
                   change_tick, qs, panicked, vended, reserved, dead, given>>

NextTicks ==
    \/ TickIncrement
    \/ TickSetChanged
    \/ TickSystemRun
    \/ TickScan

SpecTicks == InitTicks /\ [][NextTicks]_vars

\* is_newer_than of a stored tick, set age increments ago, is true only for
\* the last_run ticks that are older than that
OnlyIfSetAfter(stored, age, this_run) ==
    \A last_run \in TickValues :
        IsNewerThan(stored, last_run, this_run) =>
            age < RelativeTo(this_run, last_run)

\* C38: with a scan at least once every 2 * CHECK_TICK_THRESHOLD - 1
\* increments of the world tick, is_newer_than(t, last_run, this_run) is true
\* for a stored tick t and a last_run not newer than this_run only if t was
\* set after last_run: the wrap-around of u32 never makes an unmodified
\* component look changed, and a scan never flips the is_changed result of a
\* component that was not mutated.
C38_NoFalseChange ==
    [][/\ OnlyIfSetAfter(storages'.added, reach'.added, change_tick')
       /\ OnlyIfSetAfter(storages'.changed, reach'.changed, change_tick')
       /\ IsChanged(storages', qs'.last_run, change_tick') =>
              reach'.changed < reach'.last_run
       /\ IsAdded(storages', qs'.last_run, change_tick') =>
              reach'.added < reach'.last_run
       /\ (last'.op = "check_tick") =>
              \A last_run \in TickValues :
                  /\ IsChanged(storages', last_run, change_tick)
                         = IsChanged(storages, last_run, change_tick)
                  /\ IsAdded(storages', last_run, change_tick)
                         = IsAdded(storages, last_run, change_tick)]_vars

\* a scan clamped the added tick of a component that was added more than
\* u32::MAX increments ago and changed since the last run of the system
C38_Witness ==
    /\ last.op = "check_tick"
    /\ last.added
    /\ reach.added > TickU32Max + 1
    /\ reach.changed < reach.last_run
    /\ reach.last_run < MAX_CHANGE_AGE
    /\ change_tick < storages.changed

\* C39: check_tick(now) replaces a tick whose age now - tick, in wrapping u32
\* subtraction, exceeds MAX_CHANGE_AGE by now - MAX_CHANGE_AGE and returns
\* true; otherwise it leaves the tick alone and returns false; after a scan
\* the age of every scanned tick is at most MAX_CHANGE_AGE.
C39_CheckTickClamps ==
    [][(last'.op = "check_tick") =>
          /\ IF WrappingSub(change_tick, storages.added) > MAX_CHANGE_AGE
             THEN /\ storages'.added = WrappingSub(change_tick, MAX_CHANGE_AGE)
                  /\ last'.added
             ELSE /\ storages'.added = storages.added
                  /\ ~last'.added
          /\ IF WrappingSub(change_tick, storages.changed) > MAX_CHANGE_AGE
             THEN /\ storages'.changed = WrappingSub(change_tick, MAX_CHANGE_AGE)
                  /\ last'.changed
             ELSE /\ storages'.changed = storages.changed
                  /\ ~last'.changed
          /\ WrappingSub(change_tick', storages'.added) <= MAX_CHANGE_AGE
          /\ WrappingSub(change_tick', storages'.changed) <= MAX_CHANGE_AGE]_vars

\* a scan clamped the added tick, whose age was u32::MAX, across the wrap of
\* the world tick, and left the changed tick, whose age was MAX_CHANGE_AGE
C39_Witness ==
    /\ last.op = "check_tick"
    /\ last.added
    /\ ~last.changed
    /\ storages.added > change_tick
    /\ WrappingSub(change_tick, storages.changed) = MAX_CHANGE_AGE
    /\ WrappingSub(change_tick, storages.added) = MAX_CHANGE_AGE

-----------------------------------------------------------------------------
(* The growth of a BlobVec, checked under SpecBlobVec *)

\* what the call asks for beyond the free space
Shortfall(blob, additional) == additional - (blob.capacity - blob.len)

\* the elements the BlobVec stored before the step are where they were
ElementsKept ==
    /\ storages'.blob.len >= TheBlobVec.len
    /\ storages'.blob.len <= storages'.blob.capacity
    /\ storages'.blob.capacity = Len(storages'.blob.data)
    /\ \A i \in 1..TheBlobVec.len : storages'.blob.data[i] = TheBlobVec.data[i]

\* reserve_exact raises the capacity by the shortfall, when there is one
ReserveExactStep ==
    (last'.op = "reserve_exact") =>
        /\ IF Shortfall(TheBlobVec, last'.additional) > 0
           THEN storages'.blob.capacity =
                    TheBlobVec.capacity + Shortfall(TheBlobVec, last'.additional)
           ELSE storages'.blob = TheBlobVec
        /\ storages'.blob.len = TheBlobVec.len
        /\ ElementsKept

\* C40, as stated: reserve_exact(n) with shortfall s = n - (capacity - len) > 0
\* raises the capacity by exactly s and does nothing when the free space
\* suffices; the amortized reserve used by push, when the free space is short,
\* doubles max(current capacity, needed): the new capacity is twice the larger
\* of the capacity and the shortfall; len <= capacity holds afterwards and the
\* stored elements are unchanged.
C40_AmortizedDoublesMax ==
    [][/\ ReserveExactStep
       /\ (last'.op = "reserve") =>
              /\ IF Shortfall(TheBlobVec, last'.additional) > 0
                 THEN storages'.blob.capacity =
                          2 * Max(TheBlobVec.capacity,
                                  Shortfall(TheBlobVec, last'.additional))
                 ELSE storages'.blob = TheBlobVec
              /\ storages'.blob.len = TheBlobVec.len
              /\ ElementsKept
       /\ (last'.op = "push") =>
              /\ IF Shortfall(TheBlobVec, 1) > 0
                 THEN storages'.blob.capacity =
                          2 * Max(TheBlobVec.capacity, Shortfall(TheBlobVec, 1))
                 ELSE storages'.blob.capacity = TheBlobVec.capacity
              /\ storages'.blob.len = TheBlobVec.len + 1
              /\ ElementsKept]_vars

\* C40, amended: reserve_exact(n) with shortfall s = n - (capacity - len) > 0
\* raises the capacity by exactly s and does nothing when the free space
\* suffices; the amortized reserve used by push, when the free space is short
\* by s, raises the capacity by max(current capacity, s): it doubles a
\* capacity that is at least s and adds s to a smaller one; len <= capacity
\* holds afterwards and the stored elements are unchanged.
C40_AmortizedAddsMax ==
    [][/\ ReserveExactStep
       /\ (last'.op = "reserve") =>
              /\ IF Shortfall(TheBlobVec, last'.additional) > 0
                 THEN storages'.blob.capacity =
                          TheBlobVec.capacity
                              + Max(TheBlobVec.capacity,
                                    Shortfall(TheBlobVec, last'.additional))
                 ELSE storages'.blob = TheBlobVec
              /\ storages'.blob.len = TheBlobVec.len
              /\ ElementsKept
       /\ (last'.op = "push") =>
              /\ IF Shortfall(TheBlobVec, 1) > 0
                 THEN storages'.blob.capacity =
                          TheBlobVec.capacity
                              + Max(TheBlobVec.capacity, Shortfall(TheBlobVec, 1))
                 ELSE storages'.blob.capacity = TheBlobVec.capacity
              /\ storages'.blob.len = TheBlobVec.len + 1
              /\ storages'.blob.data[TheBlobVec.len + 1] = last'.value
              /\ ElementsKept]_vars

\* a push grew a BlobVec without capacity: it holds one element in a capacity
\* of one
C40_Witness ==
    /\ last.op = "push"
    /\ last.grown
    /\ TheBlobVec.capacity = 1
    /\ TheBlobVec.len = 1
====
